---------------------------- MODULE Spec2Model ----------------------------
(***************************************************************************)
(* A state-machine model of labelme's annotation canvas                    *)
(* (src/labelme/widgets/canvas.py): the Canvas widget's fields, its event  *)
(* handlers and host-facing methods, the undo history, the bounded-move    *)
(* geometry and the AI-assist bridge with its two lru caches.              *)
(*                                                                         *)
(* Conventions                                                             *)
(*  - A coordinate is an integer number of 1/Sub pixels, so that int()     *)
(*    truncation and the w-1 / w off-by-one of the clamps are observable.  *)
(*  - Python object identity is kept: every live Shape object has an       *)
(*    address in `heap`; `shapes`, `selectedShapes`, `hShape`, `current`   *)
(*    ... hold addresses.  History snapshots own their (deep) copies, so   *)
(*    they are stored by value and get addresses when restoreShape makes   *)
(*    them live.                                                           *)
(*  - Handlers are operators from a canvas record (`self`) to a canvas     *)
(*    record, composed in the order of the statements of the source; an    *)
(*    action applies one handler to the current fields and commits the     *)
(*    result.  An uncaught Python exception stops the handler where it is  *)
(*    raised and is recorded in `exc`.                                     *)
(*  - Sequences are 1-based: a Python index i is i+1 here.                 *)
(***************************************************************************)
EXTENDS Integers, Sequences, FiniteSets, TLC

(***************************************************************************)
(* Bounds of the model (not program constants).                            *)
(***************************************************************************)
\* coordinates are counted in 1/Sub pixels
Sub == 2
\* width and height of the loaded image, in pixels
ImgW == 3
ImgH == 3
\* largest history capacity (num_backups) a canvas is constructed with
MaxBackups == 2
\* storeShapes calls explored by the history specification
MaxPushes == 13
\* shapes in the shape set
MaxShapes == 2
\* vertices of one shape
MaxPoints == 4
\* hit-test tolerance (the host's epsilon argument), in 1/Sub pixels
Epsilon == 1
\* SpecBuild: hit tolerance in 1/Sub pixels, shapes built, vertices of one
BuildEpsilon == 2
BuildMaxShapes == 1
BuildMaxPoints == 3
\* SpecFifo: pushes of one behaviour
FifoPushes == 7
\* SpecRestore, SpecReset: steps of one behaviour
RestoreSteps == 5
ResetSteps == 4
\* SpecCopy, SpecMode: events of one behaviour
CopySteps == 7
ModeSteps == 4
\* SpecSelect: events and host calls of one behaviour
SelectSteps == 5
\* events and host calls of one behaviour of SpecEdit
MaxSteps == 6
\* SpecDraw: user events before the host re-opens the last shape, and after
MaxDrawSteps == 3
MaxContinueSteps == 2

(***************************************************************************)
(* Program constants.                                                      *)
(***************************************************************************)
\* Python's None, for object references and indices
None == 0
\* Canvas.CREATE, Canvas.EDIT
CREATE == 0
EDIT == 1
\* default of the num_backups constructor argument
DefaultNumBackups == 10
\* maxsize of the lru_cache on _get_ai_model / __compute_image_embedding
ModelCacheSize == 1
EmbeddingCacheSize == 3
\* MOVE_SPEED: pixels of one arrow-key nudge
MOVE_SPEED == 5

(***************************************************************************)
(* Generic helpers.                                                        *)
(***************************************************************************)
Range(s) == {s[i] : i \in DOMAIN s}

MinOf(a, b) == IF a <= b THEN a ELSE b

MaxOf(a, b) == IF a >= b THEN a ELSE b

SetMin(S) == CHOOSE x \in S : \A y \in S : x <= y

SetMax(S) == CHOOSE x \in S : \A y \in S : x >= y

\* s[a..] of Python for a 0-based start a (possibly beyond the end)
DropFirst(s, n) == IF n >= Len(s) THEN <<>> ELSE SubSeq(s, n + 1, Len(s))

\* s[-n:] of Python, n >= 1
LastN(s, n) == IF n >= Len(s) THEN s ELSE SubSeq(s, Len(s) - n + 1, Len(s))

ButLast(s) == SubSeq(s, 1, Len(s) - 1)

RemoveAt(s, i) == SubSeq(s, 1, i - 1) \o SubSeq(s, i + 1, Len(s))

\* list.insert: x becomes element i, or the last one when i is beyond the end
InsertAt(s, i, x) ==
    LET k == IF i > Len(s) THEN Len(s) + 1 ELSE i
    IN  SubSeq(s, 1, k - 1) \o <<x>> \o SubSeq(s, k, Len(s))

\* index of the first occurrence of x in s (list.index), None when absent
IndexOf(s, x) ==
    IF \E i \in DOMAIN s : s[i] = x
    THEN SetMin({i \in DOMAIN s : s[i] = x})
    ELSE None

\* list.remove(x): drops the first occurrence
RemoveFirst(s, x) == RemoveAt(s, IndexOf(s, x))

(***************************************************************************)
(* Points (QPointF) and the image.                                         *)
(***************************************************************************)
Pt(x, y) == <<x, y>>

Px(n) == n * Sub

PtAdd(p, q) == <<p[1] + q[1], p[2] + q[2]>>

PtSub(p, q) == <<p[1] - q[1], p[2] - q[2]>>

\* QPointF(): the null point; bool(QPointF) is "not isNull()"
NullPoint == <<0, 0>>

PtTruthy(p) == p # NullPoint

\* int(x) of a float x: truncation toward zero, here on 1/Sub pixels
IntTrunc(x) == IF x >= 0 THEN (x \div Sub) * Sub ELSE -(((-x) \div Sub) * Sub)

\* QPixmap(): the null pixmap of __init__; resetState sets the field to None
\* (w, h in pixels; img names the pixel content)
NullPixmap == [isNone |-> FALSE, w |-> 0, h |-> 0, img |-> 0]

NonePixmap == [isNone |-> TRUE, w |-> 0, h |-> 0, img |-> 0]

Pixmap(w, h, img) == [isNone |-> FALSE, w |-> w, h |-> h, img |-> img]

(***************************************************************************)
(* Shape (labelme/shape.py, not among the sources: modelled from the       *)
(* specification's sections 3 and 4.2).  A shape value is a record; its    *)
(* identity is its address in the heap.                                    *)
(***************************************************************************)
\* Shape(shape_type=t): no vertices, open, unselected, nothing refined
NewShape(t) ==
    [shape_type |-> t, points |-> <<>>, point_labels |-> <<>>,
     closed |-> FALSE, selected |-> FALSE, hasMask |-> FALSE, raw |-> <<>>,
     label |-> ""]

ShapeClose(s) == [s EXCEPT !.closed = TRUE]

ShapeSetOpen(s) == [s EXCEPT !.closed = FALSE]

\* addPoint(p, label): a point equal to the first vertex closes the shape
\* instead of being appended
ShapeAddPoint(s, p, label) ==
    IF Len(s.points) > 0 /\ p = s.points[1]
    THEN ShapeClose(s)
    ELSE [s EXCEPT !.points = Append(@, p),
                   !.point_labels = Append(@, label)]

ShapePopPoint(s) ==
    IF Len(s.points) = 0 THEN s
    ELSE [s EXCEPT !.points = ButLast(@),
                   !.point_labels = IF Len(@) > 0 THEN ButLast(@) ELSE @]

ShapeCanAddPoint(s) == s.shape_type \in {"polygon", "linestrip"}

ShapeMoveBy(s, d) ==
    [s EXCEPT !.points = [i \in DOMAIN s.points |-> PtAdd(s.points[i], d)]]

ShapeMoveVertexBy(s, i, d) == [s EXCEPT !.points[i] = PtAdd(@, d)]

\* setShapeRefined: remembers the raw prompt, then replaces the geometry
ShapeSetRefined(s, t, pts, labels, mask) ==
    [s EXCEPT !.raw = <<[shape_type |-> s.shape_type, points |-> s.points,
                         point_labels |-> s.point_labels]>>,
              !.shape_type = t, !.points = pts, !.point_labels = labels,
              !.hasMask = mask]

ShapeRestoreRaw(s) ==
    IF s.raw = <<>> THEN s
    ELSE [s EXCEPT !.shape_type = s.raw[1].shape_type,
                   !.points = s.raw[1].points,
                   !.point_labels = s.raw[1].point_labels,
                   !.raw = <<>>]

\* boundingRect(): <<left, top, right, bottom>> of the vertices
ShapeBoundingRect(s) ==
    <<SetMin({s.points[i][1] : i \in DOMAIN s.points}),
      SetMin({s.points[i][2] : i \in DOMAIN s.points}),
      SetMax({s.points[i][1] : i \in DOMAIN s.points}),
      SetMax({s.points[i][2] : i \in DOMAIN s.points})>>


(***************************************************************************)
(* Shape hit tests (labelme/shape.py, modelled from the specification's    *)
(* section 4.2) on exact integer arithmetic: distances are compared by     *)
(* their squares.                                                          *)
(***************************************************************************)
Dist2(p, q) == (p[1] - q[1]) * (p[1] - q[1]) + (p[2] - q[2]) * (p[2] - q[2])

\* nearestVertex(p, tol): the closest vertex within tol (lowest index on a
\* tie), or None
ShapeNearestVertex(s, p, tol) ==
    LET near == {i \in DOMAIN s.points : Dist2(s.points[i], p) <= tol * tol}
    IN  IF near = {} THEN None
        ELSE SetMin({i \in near :
                 \A j \in near : Dist2(s.points[i], p) <= Dist2(s.points[j], p)})

\* the squared distance of p to the segment a-b, as the fraction <<n, d>>
SegDist2(p, a, b) ==
    LET l2 == Dist2(a, b)
        t == (p[1] - a[1]) * (b[1] - a[1]) + (p[2] - a[2]) * (b[2] - a[2])
        cr == (b[1] - a[1]) * (p[2] - a[2]) - (b[2] - a[2]) * (p[1] - a[1])
    IN  IF l2 = 0 \/ t <= 0 THEN <<Dist2(p, a), 1>>
        ELSE IF t >= l2 THEN <<Dist2(p, b), 1>>
        ELSE <<cr * cr, l2>>

FracLeq(f, g) == f[1] * g[2] <= g[1] * f[2]

\* the vertex before vertex i, cyclically (Python's points[i - 1])
PrevIndex(s, i) == IF i = 1 THEN Len(s.points) ELSE i - 1

\* nearestEdge(p, tol): the index of the end vertex of the closest edge
\* within tol (lowest index on a tie), or None
ShapeNearestEdge(s, p, tol) ==
    LET d(i) == SegDist2(p, s.points[PrevIndex(s, i)], s.points[i])
        near == {i \in DOMAIN s.points : FracLeq(d(i), <<tol * tol, 1>>)}
    IN  IF near = {} THEN None
        ELSE SetMin({i \in near : \A j \in near : FracLeq(d(i), d(j))})

\* a horizontal ray from p to the right crosses the edge a-b (even-odd rule)
RayCrosses(p, a, b) ==
    /\ (a[2] > p[2]) # (b[2] > p[2])
    /\ LET lhs == (p[1] - a[1]) * (b[2] - a[2])
           rhs == (b[1] - a[1]) * (p[2] - a[2])
       IN  IF b[2] > a[2] THEN lhs < rhs ELSE lhs > rhs

\* containsPoint(p): the box of a rectangle or mask, the disc of a circle,
\* the even-odd interior of the closed vertex path otherwise
ShapeContainsPoint(s, p) ==
    IF Len(s.points) = 0 THEN FALSE
    ELSE IF s.shape_type \in {"rectangle", "mask"} /\ Len(s.points) = 2
    THEN LET r == ShapeBoundingRect(s)
         IN  r[1] <= p[1] /\ p[1] <= r[3] /\ r[2] <= p[2] /\ p[2] <= r[4]
    ELSE IF s.shape_type = "circle" /\ Len(s.points) = 2
    THEN Dist2(p, s.points[1]) <= Dist2(s.points[2], s.points[1])
    ELSE Cardinality({i \in DOMAIN s.points :
             RayCrosses(p, s.points[PrevIndex(s, i)], s.points[i])}) % 2 = 1

\* removePoint refuses kinds without edge insertion and shapes that would
\* become degenerate
ShapeRemoveRefused(s) ==
    \/ ~ShapeCanAddPoint(s)
    \/ s.shape_type = "polygon" /\ Len(s.points) <= 3
    \/ s.shape_type = "linestrip" /\ Len(s.points) <= 2

\* removePoint(i), for i within the vertices
ShapeRemovePoint(s, i) ==
    IF ShapeRemoveRefused(s) THEN s
    ELSE [s EXCEPT !.points = RemoveAt(@, i),
                   !.point_labels = IF i <= Len(@) THEN RemoveAt(@, i) ELSE @]

\* insertPoint(i, p): p becomes vertex i, with a positive label
ShapeInsertPoint(s, i, p) ==
    [s EXCEPT !.points = InsertAt(@, i, p),
              !.point_labels = InsertAt(@, i, 1)]

(***************************************************************************)
(* The state: the fields of the Canvas object (__init__), the heap of      *)
(* live Shape objects, the two module-level lru caches, and what the last  *)
(* handler did (the signals it emitted, the snapshots it pushed, the       *)
(* exception it raised).                                                   *)
(***************************************************************************)
VARIABLES
    num_backups,        \* history capacity (constructor argument)
    double_click,       \* TRUE: "close", FALSE: None (constructor argument)
    epsilon,            \* hit tolerance (constructor argument); scale is 1.0
    mode,               \* CREATE or EDIT
    createMode,         \* "polygon", "rectangle", ..., "ai_mask"
    shapes,             \* the shape set: addresses, bottom-most first
    shapesBackups,      \* the undo history: snapshots (sequences of shape values)
    current,            \* address of the in-progress shape, or None
    selectedShapes,     \* addresses of the selected shapes
    selectedShapesCopy, \* addresses of the shadow copies of a right-button drag
    line,               \* the rubber-band Shape (a value: never shared)
    prevPoint,          \* pointer position of the last press / bounded move
    prevMovePoint,      \* pointer position of the last move event
    offsets,            \* <<o1, o2>> of calculateOffsets
    pixmap,             \* the image: [isNone, w, h] in pixels, img its content
    hShape, prevhShape, \* highlighted shape (address or None) and the previous one
    hVertex, prevhVertex, \* highlighted vertex index or None
    hEdge, prevhEdge,   \* highlighted edge index or None
    movingShape,        \* a drag or a nudge has moved something
    snapping,
    hShapeIsSelected,
    holding_mouse,      \* hold-to-add timer armed
    zoom_mode,          \* zoom-to-rectangle mode (set by the host)
    zoom_rect,          \* _zoom_rect_start is not None
    visible,            \* shape address -> BOOLEAN: the entries of self.visible
    ai_model_name,      \* _ai_model_name
    heap,               \* address -> Shape value, for every referenced Shape
    modelCache,         \* lru cache of _get_ai_model: <<[name, inst]>>, MRU last
    embedCache,         \* lru cache of __compute_image_embedding, MRU last
    exc,                \* "none" or the exception the last handler raised
    lastOp,             \* the handler that ran last
    nStore,             \* storeShapes calls made by the last handler
    emitted,            \* signals emitted by the last handler
    atNewShape,         \* <<the canvas as the slot of newShape found it>>, or <<>>
    nEncode,            \* sam.encode_image calls made by the last handler
    ghost               \* scenario bookkeeping of the specification at hand

canvasFields ==
    <<num_backups, double_click, epsilon, mode, createMode, shapes, shapesBackups,
      current, selectedShapes, selectedShapesCopy, line, prevPoint,
      prevMovePoint, offsets, pixmap, hShape, prevhShape, hVertex,
      prevhVertex, hEdge, prevhEdge, movingShape, snapping, hShapeIsSelected,
      holding_mouse, zoom_mode, zoom_rect, visible, ai_model_name, heap,
      modelCache,
      embedCache, exc, lastOp, nStore, emitted, atNewShape, nEncode>>

vars == <<canvasFields, ghost>>

\* the program state as one record, the `self` the handlers work on
Self ==
    [num_backups |-> num_backups, double_click |-> double_click,
     epsilon |-> epsilon, mode |-> mode, createMode |-> createMode, shapes |-> shapes,
     shapesBackups |-> shapesBackups, current |-> current,
     selectedShapes |-> selectedShapes,
     selectedShapesCopy |-> selectedShapesCopy, line |-> line,
     prevPoint |-> prevPoint, prevMovePoint |-> prevMovePoint,
     offsets |-> offsets, pixmap |-> pixmap, hShape |-> hShape,
     prevhShape |-> prevhShape, hVertex |-> hVertex,
     prevhVertex |-> prevhVertex, hEdge |-> hEdge, prevhEdge |-> prevhEdge,
     movingShape |-> movingShape, snapping |-> snapping,
     hShapeIsSelected |-> hShapeIsSelected, holding_mouse |-> holding_mouse,
     zoom_mode |-> zoom_mode, zoom_rect |-> zoom_rect, visible |-> visible,
     ai_model_name |-> ai_model_name, heap |-> heap,
     modelCache |-> modelCache, embedCache |-> embedCache,
     exc |-> exc, lastOp |-> lastOp,
     nStore |-> nStore, emitted |-> emitted, atNewShape |-> atNewShape,
     nEncode |-> nEncode]

\* addresses some field still refers to (the keys of self.visible are
\* references too)
Referenced(c) ==
    Range(c.shapes) \cup Range(c.selectedShapes) \cup Range(c.selectedShapesCopy)
        \cup ({c.current, c.hShape, c.prevhShape} \ {None})
        \cup DOMAIN c.visible

\* objects nothing refers to are garbage: they leave the heap
Collect(c) == [c EXCEPT !.heap = [a \in Referenced(c) |-> c.heap[a]]]

\* the fields of a canvas in state c (an initial state)
Install(c) ==
    \E d \in {Collect(c)} :
    /\ num_backups = d.num_backups
    /\ double_click = d.double_click
    /\ epsilon = d.epsilon
    /\ mode = d.mode
    /\ createMode = d.createMode
    /\ shapes = d.shapes
    /\ shapesBackups = d.shapesBackups
    /\ current = d.current
    /\ selectedShapes = d.selectedShapes
    /\ selectedShapesCopy = d.selectedShapesCopy
    /\ line = d.line
    /\ prevPoint = d.prevPoint
    /\ prevMovePoint = d.prevMovePoint
    /\ offsets = d.offsets
    /\ pixmap = d.pixmap
    /\ hShape = d.hShape
    /\ prevhShape = d.prevhShape
    /\ hVertex = d.hVertex
    /\ prevhVertex = d.prevhVertex
    /\ hEdge = d.hEdge
    /\ prevhEdge = d.prevhEdge
    /\ movingShape = d.movingShape
    /\ snapping = d.snapping
    /\ hShapeIsSelected = d.hShapeIsSelected
    /\ holding_mouse = d.holding_mouse
    /\ zoom_mode = d.zoom_mode
    /\ zoom_rect = d.zoom_rect
    /\ visible = d.visible
    /\ ai_model_name = d.ai_model_name
    /\ heap = d.heap
    /\ modelCache = d.modelCache
    /\ embedCache = d.embedCache
    /\ exc = d.exc
    /\ lastOp = d.lastOp
    /\ nStore = d.nStore
    /\ emitted = d.emitted
    /\ atNewShape = d.atNewShape
    /\ nEncode = d.nEncode

\* the fields after a handler returned c
Commit(c) ==
    \E d \in {Collect(c)} :
    /\ num_backups' = d.num_backups
    /\ double_click' = d.double_click
    /\ epsilon' = d.epsilon
    /\ mode' = d.mode
    /\ createMode' = d.createMode
    /\ shapes' = d.shapes
    /\ shapesBackups' = d.shapesBackups
    /\ current' = d.current
    /\ selectedShapes' = d.selectedShapes
    /\ selectedShapesCopy' = d.selectedShapesCopy
    /\ line' = d.line
    /\ prevPoint' = d.prevPoint
    /\ prevMovePoint' = d.prevMovePoint
    /\ offsets' = d.offsets
    /\ pixmap' = d.pixmap
    /\ hShape' = d.hShape
    /\ prevhShape' = d.prevhShape
    /\ hVertex' = d.hVertex
    /\ prevhVertex' = d.prevhVertex
    /\ hEdge' = d.hEdge
    /\ prevhEdge' = d.prevhEdge
    /\ movingShape' = d.movingShape
    /\ snapping' = d.snapping
    /\ hShapeIsSelected' = d.hShapeIsSelected
    /\ holding_mouse' = d.holding_mouse
    /\ zoom_mode' = d.zoom_mode
    /\ zoom_rect' = d.zoom_rect
    /\ visible' = d.visible
    /\ ai_model_name' = d.ai_model_name
    /\ heap' = d.heap
    /\ modelCache' = d.modelCache
    /\ embedCache' = d.embedCache
    /\ exc' = d.exc
    /\ lastOp' = d.lastOp
    /\ nStore' = d.nStore
    /\ emitted' = d.emitted
    /\ atNewShape' = d.atNewShape
    /\ nEncode' = d.nEncode

\* a handler starts: nothing emitted, pushed, computed or raised yet
Begin(c, op) ==
    [c EXCEPT !.lastOp = op, !.nStore = 0, !.emitted = {}, !.nEncode = 0,
              !.exc = "none", !.atNewShape = <<>>]

\* an uncaught exception: the handler stops, the state stays as it is
Raise(c, e) == [c EXCEPT !.exc = e]

Emit(c, sig) == [c EXCEPT !.emitted = @ \cup {sig}]

\* self.newShape.emit(): the host's slot runs now, on the canvas as it is
EmitNewShape(c) ==
    [Emit(c, "newShape") EXCEPT
        !.atNewShape = <<[mode |-> c.mode, current |-> c.current,
                          shapes |-> c.shapes,
                          values |-> [i \in DOMAIN c.shapes |-> c.heap[c.shapes[i]]],
                          shapesBackups |-> c.shapesBackups]>>]

(***************************************************************************)
(* The heap.                                                               *)
(***************************************************************************)
\* the lowest address not in use
FreshAddr(h) ==
    CHOOSE a \in 1..(Cardinality(DOMAIN h) + 1) :
        /\ a \notin DOMAIN h
        /\ \A b \in 1..(a - 1) : b \in DOMAIN h

\* the heap with the values of vs as new objects, and their addresses
RECURSIVE AllocAll(_, _)
AllocAll(h, vs) ==
    IF vs = <<>> THEN [heap |-> h, addrs |-> <<>>]
    ELSE LET a == FreshAddr(h)
             r == AllocAll(h @@ (a :> Head(vs)), Tail(vs))
         IN  [heap |-> r.heap, addrs |-> <<a>> \o r.addrs]

\* the Shape at address a
Obj(c, a) == c.heap[a]

SetObj(c, a, v) == [c EXCEPT !.heap[a] = v]

\* the values of a list of shapes
Values(c, addrs) == [i \in DOMAIN addrs |-> c.heap[addrs[i]]]

(***************************************************************************)
(* Construction.                                                           *)
(***************************************************************************)
\* Canvas.__init__(num_backups=n, double_click=dc)
InitCanvas(n, dc) ==
    [num_backups |-> n, double_click |-> dc, epsilon |-> Epsilon, mode |-> EDIT,
     createMode |-> "polygon", shapes |-> <<>>, shapesBackups |-> <<>>,
     current |-> None, selectedShapes |-> <<>>, selectedShapesCopy |-> <<>>,
     line |-> NewShape("polygon"), prevPoint |-> NullPoint,
     prevMovePoint |-> NullPoint, offsets |-> <<NullPoint, NullPoint>>,
     pixmap |-> NullPixmap, hShape |-> None,
     prevhShape |-> None, hVertex |-> None, prevhVertex |-> None,
     hEdge |-> None, prevhEdge |-> None, movingShape |-> FALSE,
     snapping |-> TRUE, hShapeIsSelected |-> FALSE, holding_mouse |-> FALSE,
     zoom_mode |-> FALSE, zoom_rect |-> FALSE, visible |-> <<>>,
     ai_model_name |-> "sam2:latest",
     heap |-> <<>>, modelCache |-> <<>>, embedCache |-> <<>>,
     exc |-> "none",
     lastOp |-> "init", nStore |-> 0, emitted |-> {}, atNewShape |-> <<>>,
     nEncode |-> 0]

(***************************************************************************)
(* The undo history.                                                       *)
(***************************************************************************)
\* storeShapes whose trim keeps the oldest entries
storeShapes_KeepOldest(c) ==
    LET shapesBackup == Values(c, c.shapes)
        kept == IF Len(c.shapesBackups) > c.num_backups
                THEN SubSeq(c.shapesBackups, 1, c.num_backups + 1)
                ELSE c.shapesBackups
    IN  [c EXCEPT !.shapesBackups = Append(kept, shapesBackup),
                  !.nStore = @ + 1]

\* Canvas.storeShapes: trim, then append a deep copy of the shape set
storeShapes(c) ==
    LET shapesBackup == Values(c, c.shapes)
        kept == IF Len(c.shapesBackups) > c.num_backups
                THEN LastN(c.shapesBackups, c.num_backups + 1)
                ELSE c.shapesBackups
    IN  [c EXCEPT !.shapesBackups = Append(kept, shapesBackup),
                  !.nStore = @ + 1]

\* Canvas.isShapeRestorable
isShapeRestorable(c) == ~(Len(c.shapesBackups) < 2)

\* restoreShape without the first pop: it restores the latest snapshot
restoreShape_PopOnce(c) ==
    IF ~isShapeRestorable(c) THEN c
    ELSE LET shapesBackup == c.shapesBackups[Len(c.shapesBackups)]
             al == AllocAll(c.heap, shapesBackup)
         IN  [c EXCEPT !.shapesBackups = ButLast(@),
                       !.heap = al.heap,
                       !.shapes = al.addrs,
                       !.selectedShapes = <<>>]

\* restoreShape that empties the selection before it looks at the history
restoreShape_DeselectsFirst(c) ==
    IF ~isShapeRestorable(c) THEN [c EXCEPT !.selectedShapes = <<>>]
    ELSE LET popped == ButLast(c.shapesBackups)
             shapesBackup == popped[Len(popped)]
             unsel == [i \in DOMAIN shapesBackup |->
                          [shapesBackup[i] EXCEPT !.selected = FALSE]]
             al == AllocAll(c.heap, unsel)
         IN  [c EXCEPT !.shapesBackups = ButLast(popped),
                       !.heap = al.heap,
                       !.shapes = al.addrs,
                       !.selectedShapes = <<>>]

\* restoreShape that leaves the restored shapes' selected marks as saved
restoreShape_KeepsMarks(c) ==
    IF ~isShapeRestorable(c) THEN c
    ELSE LET popped == ButLast(c.shapesBackups)
             shapesBackup == popped[Len(popped)]
             al == AllocAll(c.heap, shapesBackup)
         IN  [c EXCEPT !.shapesBackups = ButLast(popped),
                       !.heap = al.heap,
                       !.shapes = al.addrs,
                       !.selectedShapes = <<>>]

\* Canvas.restoreShape: drop the latest snapshot, pop the one before it and
\* make its shapes the shape set
restoreShape(c) ==
    IF ~isShapeRestorable(c) THEN c
    ELSE LET popped == ButLast(c.shapesBackups)
             shapesBackup == popped[Len(popped)]
             unsel == [i \in DOMAIN shapesBackup |->
                          [shapesBackup[i] EXCEPT !.selected = FALSE]]
             al == AllocAll(c.heap, unsel)
         IN  [c EXCEPT !.shapesBackups = ButLast(popped),
                       !.heap = al.heap,
                       !.shapes = al.addrs,
                       !.selectedShapes = <<>>]

\* Canvas.loadShapes(shapes, replace): shapes is a list of addresses
loadShapes(c, addrs, replace) ==
    LET c1 == [c EXCEPT !.shapes = IF replace THEN addrs ELSE @ \o addrs]
        c2 == storeShapes(c1)
    IN  [c2 EXCEPT !.current = None, !.hShape = None, !.hVertex = None,
                   !.hEdge = None]

\* Canvas.deleteShape(shape)
deleteShape(c, a) ==
    LET c1 == IF \E i \in DOMAIN c.selectedShapes : c.selectedShapes[i] = a
              THEN [c EXCEPT !.selectedShapes = RemoveFirst(@, a)]
              ELSE c
        c2 == IF \E i \in DOMAIN c1.shapes : c1.shapes[i] = a
              THEN [c1 EXCEPT !.shapes = RemoveFirst(@, a)]
              ELSE c1
    IN  storeShapes(c2)

\* Canvas.loadPixmap(pixmap, clear_shapes)
loadPixmap(c, pm, clear_shapes) ==
    [c EXCEPT !.pixmap = pm, !.shapes = IF clear_shapes THEN <<>> ELSE @]

\* Canvas.resetState
resetState(c) ==
    [c EXCEPT !.pixmap = NonePixmap, !.shapesBackups = <<>>]


(***************************************************************************)
(* Bounded moves of the selection.                                         *)
(***************************************************************************)
\* Canvas.outOfPixmap (the pixmap is loaded)
outOfPixmap(c, p) ==
    LET w == Px(c.pixmap.w)
        h == Px(c.pixmap.h)
    IN  ~(0 <= p[1] /\ p[1] <= w - Px(1) /\ 0 <= p[2] /\ p[2] <= h - Px(1))

\* Canvas.calculateOffsets: the corners of the selection's bounding box
\* relative to the pointer, truncated to integers
calculateOffsets(c, point) ==
    LET rects == {ShapeBoundingRect(Obj(c, c.selectedShapes[i])) :
                      i \in DOMAIN c.selectedShapes}
        left == SetMin({Px(c.pixmap.w) - Px(1)} \cup {r[1] : r \in rects})
        top == SetMin({Px(c.pixmap.h) - Px(1)} \cup {r[2] : r \in rects})
        right == SetMax({0} \cup {r[3] : r \in rects})
        bottom == SetMax({0} \cup {r[4] : r \in rects})
        x1 == left - point[1]
        y1 == top - point[2]
        x2 == right - point[1]
        y2 == bottom - point[2]
    IN  [c EXCEPT !.offsets = <<Pt(IntTrunc(x1), IntTrunc(y1)),
                                Pt(IntTrunc(x2), IntTrunc(y2))>>]

\* the position boundedMoveShapes ends with (it adjusts pos in place)
boundedPos(c, pos) ==
    LET o1 == PtAdd(pos, c.offsets[1])
        p1 == IF outOfPixmap(c, o1)
              THEN PtSub(pos, Pt(MinOf(0, o1[1]), MinOf(0, o1[2])))
              ELSE pos
        o2 == PtAdd(p1, c.offsets[2])
        p2 == IF outOfPixmap(c, o2)
              THEN PtAdd(p1, Pt(MinOf(0, Px(c.pixmap.w) - o2[1]),
                                MinOf(0, Px(c.pixmap.h) - o2[2])))
              ELSE p1
    IN  IF outOfPixmap(c, pos) THEN pos ELSE p2

\* Canvas.boundedMoveShapes(shapes, pos)
boundedMoveShapes(c, addrs, pos) ==
    IF c.pixmap.isNone THEN Raise(c, "AttributeError")
    ELSE IF outOfPixmap(c, pos) THEN c
    ELSE LET p == boundedPos(c, pos)
             dp == PtSub(p, c.prevPoint)
         IN  IF PtTruthy(dp)
             THEN [c EXCEPT
                     !.heap = [a \in DOMAIN c.heap |->
                                 IF a \in Range(addrs)
                                 THEN ShapeMoveBy(c.heap[a], dp)
                                 ELSE c.heap[a]],
                     !.prevPoint = p]
             ELSE c

\* Canvas.moveByKeyboard(offset)
moveByKeyboard(c, offset) ==
    IF c.selectedShapes # <<>>
    THEN LET c1 == boundedMoveShapes(c, c.selectedShapes,
                                      PtAdd(c.prevPoint, offset))
         IN  IF c1.exc # "none" THEN c1 ELSE [c1 EXCEPT !.movingShape = TRUE]
    ELSE c

(***************************************************************************)
(* Small queries and the highlight.  A Shape is truthy when it has at      *)
(* least one vertex (Shape.__len__), so `if self.current` is false for     *)
(* None and for a shape without vertices.                                  *)
(***************************************************************************)
Truthy(c, a) == a # None /\ Len(Obj(c, a).points) > 0

\* Canvas.isVisible: self.visible.get(shape, True)
isVisible(c, a) == IF a \in DOMAIN c.visible THEN c.visible[a] ELSE TRUE

\* Canvas.setShapeVisible(shape, value)
setShapeVisible(c, a, value) ==
    [c EXCEPT !.visible = [b \in DOMAIN c.visible \cup {a} |->
                              IF b = a THEN value ELSE c.visible[b]]]

\* Canvas.drawing, Canvas.editing
drawing(c) == c.mode = CREATE

editing(c) == c.mode = EDIT

\* Canvas.selectedVertex, Canvas.selectedEdge
selectedVertex(c) == c.hVertex # None

selectedEdge(c) == c.hEdge # None

IsAiMode(cm) == cm \in {"ai_polygon", "ai_mask"}

\* Canvas.unHighlight
unHighlight(c) ==
    [c EXCEPT !.prevhShape = c.hShape, !.prevhVertex = c.hVertex,
              !.prevhEdge = c.hEdge,
              !.hShape = None, !.hVertex = None, !.hEdge = None]

\* the host's slot of selectionChanged: the emitted list becomes the
\* selection, and the shapes' selected flags follow it
shapeSelectionChanged(c, sel) ==
    LET c1 == Emit(c, "selectionChanged")
    IN  [c1 EXCEPT !.selectedShapes = sel,
                   !.heap = [a \in DOMAIN c.heap |->
                                [c.heap[a] EXCEPT !.selected = a \in Range(sel)]]]

\* Canvas.deSelectShape
deSelectShape(c) ==
    IF c.selectedShapes # <<>>
    THEN [shapeSelectionChanged(c, <<>>) EXCEPT !.hShapeIsSelected = FALSE]
    ELSE c

\* Canvas.setEditing(value)
setEditing(c, value) ==
    IF value THEN [c EXCEPT !.mode = EDIT]
    ELSE deSelectShape(unHighlight([c EXCEPT !.mode = CREATE]))

\* the createMode property's setter
setCreateMode(c, value) == [c EXCEPT !.createMode = value]

\* closeEnough that accepts only the very same point
closeEnough_Exact(c, p1, p2) == p1 = p2

\* Canvas.closeEnough (scale 1)
closeEnough(c, p1, p2) == Dist2(p1, p2) < c.epsilon * c.epsilon

\* Canvas.transformPos of an event position, with scale 1 and the widget
\* as large as the image: the identity, which needs the pixmap
transformPosRaises(c) == c.pixmap.isNone

(***************************************************************************)
(* intersectionPoint: the point where the segment p1-p2 leaves the image.  *)
(***************************************************************************)
\* the corners of the image, clockwise
ImageCorners(c) ==
    LET w1 == Px(c.pixmap.w) - Px(1)
        h1 == Px(c.pixmap.h) - Px(1)
    IN  <<Pt(0, 0), Pt(w1, 0), Pt(w1, h1), Pt(0, h1)>>

\* floor(n / d) for d # 0
FloorDiv(n, d) == IF d > 0 THEN n \div d ELSE (0 - n) \div (0 - d)

\* 0 <= n / d <= 1 for d # 0
UnitFraction(n, d) ==
    IF d > 0 THEN 0 <= n /\ n <= d ELSE n <= 0 /\ d <= n

\* Canvas.intersectingEdges: the image edges that the segment crosses, each
\* with the squared distance (times 4) of its middle to (x2, y2), its index
\* and the crossing point, rounded down to the model's resolution
intersectingEdges(p1, p2, points) ==
    {e \in
       {LET p3 == points[i]
            p4 == points[(i % 4) + 1]
            denom == (p4[2] - p3[2]) * (p2[1] - p1[1])
                       - (p4[1] - p3[1]) * (p2[2] - p1[2])
            nua == (p4[1] - p3[1]) * (p1[2] - p3[2])
                     - (p4[2] - p3[2]) * (p1[1] - p3[1])
            nub == (p2[1] - p1[1]) * (p1[2] - p3[2])
                     - (p2[2] - p1[2]) * (p1[1] - p3[1])
        IN  IF denom = 0
            THEN [hit |-> FALSE, d |-> 0, i |-> i, p |-> p1, atStart |-> FALSE]
            ELSE [hit |-> UnitFraction(nua, denom) /\ UnitFraction(nub, denom),
                  d |-> Dist2(Pt(p3[1] + p4[1], p3[2] + p4[2]),
                              Pt(2 * p2[1], 2 * p2[2])),
                  i |-> i,
                  p |-> Pt(p1[1] + FloorDiv(nua * (p2[1] - p1[1]), denom),
                           p1[2] + FloorDiv(nua * (p2[2] - p1[2]), denom)),
                  atStart |-> nua = 0]
        : i \in 1..4} : e.hit}

\* Canvas.intersectionPoint(p1, p2): [ok, p]; not ok is the ValueError of
\* min() when no edge is crossed
intersectionPoint(c, p1, p2) ==
    LET points == ImageCorners(c)
        w1 == points[3][1]
        h1 == points[3][2]
        q1 == Pt(MinOf(MaxOf(p1[1], 0), w1), MinOf(MaxOf(p1[2], 0), h1))
        es == intersectingEdges(q1, p2, points)
    IN  IF es = {} THEN [ok |-> FALSE, p |-> p2]
        ELSE LET e == CHOOSE e \in es :
                          \A f \in es : e.d < f.d \/ (e.d = f.d /\ e.i <= f.i)
                 p3 == points[e.i]
                 p4 == points[(e.i % 4) + 1]
             IN  IF e.atStart \/ p2 = q1
                 THEN IF p3[1] = p4[1]
                      THEN [ok |-> TRUE,
                            p |-> Pt(p3[1], MinOf(MaxOf(0, p2[2]),
                                                  MaxOf(p3[2], p4[2])))]
                      ELSE [ok |-> TRUE,
                            p |-> Pt(MinOf(MaxOf(0, p2[1]), MaxOf(p3[1], p4[1])),
                                     p3[2])]
                 ELSE [ok |-> TRUE, p |-> e.p]

(***************************************************************************)
(* Selection and vertex editing.                                           *)
(***************************************************************************)
\* the top-most visible shape that contains point, or None
TopShapeAt(c, point) ==
    LET hits == {i \in DOMAIN c.shapes :
                    /\ isVisible(c, c.shapes[i])
                    /\ ShapeContainsPoint(Obj(c, c.shapes[i]), point)}
    IN  IF hits = {} THEN None ELSE c.shapes[SetMax(hits)]

\* Canvas.selectShapePoint(point, multiple_selection_mode)
selectShapePoint(c, point, multiple_selection_mode) ==
    IF selectedVertex(c) THEN deSelectShape(c)
    ELSE LET shape == TopShapeAt(c, point)
         IN  IF shape = None THEN deSelectShape(c)
             ELSE IF shape \notin Range(c.selectedShapes)
             THEN LET sel == IF multiple_selection_mode
                             THEN Append(c.selectedShapes, shape)
                             ELSE <<shape>>
                      c1 == shapeSelectionChanged(c, sel)
                  IN  calculateOffsets([c1 EXCEPT !.hShapeIsSelected = FALSE],
                                       point)
             ELSE calculateOffsets([c EXCEPT !.hShapeIsSelected = TRUE], point)

\* Canvas.addPointToEdge
addPointToEdge(c) ==
    LET shape == c.prevhShape
        index == c.prevhEdge
    IN  IF shape = None \/ index = None THEN c
        ELSE [SetObj(c, shape,
                     ShapeInsertPoint(Obj(c, shape), index, c.prevMovePoint))
                EXCEPT !.hShape = shape, !.hVertex = index, !.hEdge = None,
                       !.movingShape = TRUE]

\* Canvas.removeSelectedPoint: removePoint pops vertex and label at index,
\* an index beyond the list is an IndexError
removeSelectedPoint(c) ==
    LET shape == c.prevhShape
        index == c.prevhVertex
        done(d) == [d EXCEPT !.hShape = shape, !.prevhVertex = None,
                             !.movingShape = TRUE]
    IN  IF shape = None \/ index = None THEN c
        ELSE LET s == Obj(c, shape)
             IN  IF ShapeRemoveRefused(s) THEN done(c)
                 ELSE IF index > Len(s.points) THEN Raise(c, "IndexError")
                 ELSE IF index > Len(s.point_labels)
                 THEN Raise(SetObj(c, shape, ShapeRemovePoint(s, index)),
                            "IndexError")
                 ELSE done(SetObj(c, shape, ShapeRemovePoint(s, index)))

\* boundedMoveVertex that takes the pointer position as it comes
boundedMoveVertex_NoClamp(c, pos) ==
    LET index == c.hVertex
        shape == c.hShape
    IN  IF shape = None THEN Raise(c, "TypeError")
        ELSE IF index > Len(Obj(c, shape).points) THEN Raise(c, "IndexError")
        ELSE SetObj(c, shape,
                    ShapeMoveVertexBy(Obj(c, shape), index,
                                      PtSub(pos, Obj(c, shape).points[index])))

\* Canvas.boundedMoveVertex(pos)
boundedMoveVertex(c, pos) ==
    LET index == c.hVertex
        shape == c.hShape
    IN  IF shape = None THEN Raise(c, "TypeError")
        ELSE IF index > Len(Obj(c, shape).points) THEN Raise(c, "IndexError")
        ELSE LET point == Obj(c, shape).points[index]
                 ip == IF outOfPixmap(c, pos)
                       THEN intersectionPoint(c, point, pos)
                       ELSE [ok |-> TRUE, p |-> pos]
             IN  IF ~ip.ok THEN Raise(c, "ValueError")
                 ELSE SetObj(c, shape,
                             ShapeMoveVertexBy(Obj(c, shape), index,
                                               PtSub(ip.p, point)))

\* list.remove of each shape of sel in turn: [ok, shapes], not ok when a
\* shape is not in the list (ValueError)
RECURSIVE RemoveEach(_, _)
RemoveEach(shs, sel) ==
    IF sel = <<>> THEN [ok |-> TRUE, shapes |-> shs]
    ELSE IF Head(sel) \notin Range(shs) THEN [ok |-> FALSE, shapes |-> shs]
    ELSE RemoveEach(RemoveFirst(shs, Head(sel)), Tail(sel))

\* Canvas.deleteSelected
deleteSelected(c) ==
    IF c.selectedShapes = <<>> THEN c
    ELSE LET r == RemoveEach(c.shapes, c.selectedShapes)
             c1 == [c EXCEPT !.shapes = r.shapes]
         IN  IF ~r.ok THEN Raise(c1, "ValueError")
             ELSE [storeShapes(c1) EXCEPT !.selectedShapes = <<>>]

(***************************************************************************)
(* The AI-assist bridge: the module-level functions of canvas.py.  The     *)
(* segmentation oracle (osam) and the mask-to-polygon extractor are        *)
(* external: one call's answer is the input `resp`,                        *)
(*   [annotations |-> number of annotations returned,                      *)
(*    box |-> <<x1, y1, x2, y2>> of the first mask,                        *)
(*    polygon |-> the vertices extracted from the first mask].             *)
(* A model instance is [name, serial]: two instantiations of one name are  *)
(* two objects.                                                            *)
(***************************************************************************)
\* model instances some cache still refers to
LiveModels(c) ==
    {c.modelCache[i].inst : i \in DOMAIN c.modelCache}
        \cup {c.embedCache[i].sam : i \in DOMAIN c.embedCache}

\* osam.apis.get_model_type_by_name(name)(): a new object
NewModel(c, name) ==
    [name |-> name,
     serial |-> SetMin({k \in 1..(Cardinality(LiveModels(c)) + 1) :
                           [name |-> name, serial |-> k] \notin LiveModels(c)})]

\* functools.lru_cache: the cache after a lookup that hit entry i
LruTouch(cache, i) == RemoveAt(cache, i) \o <<cache[i]>>

\* functools.lru_cache: the cache after a miss stored entry e
LruStore(cache, e, maxsize) ==
    IF Len(cache) >= maxsize
    THEN DropFirst(cache, Len(cache) - maxsize + 1) \o <<e>>
    ELSE cache \o <<e>>

\* _get_ai_model(model_name), @lru_cache(maxsize=1): the state and the model
get_ai_model(c, model_name) ==
    LET hits == {i \in DOMAIN c.modelCache : c.modelCache[i].name = model_name}
    IN  IF hits # {}
        THEN LET i == SetMin(hits)
             IN  [c |-> [c EXCEPT !.modelCache = LruTouch(@, i)],
                  sam |-> c.modelCache[i].inst]
        ELSE LET m == NewModel(c, model_name)
             IN  [c |-> [c EXCEPT !.modelCache =
                            LruStore(@, [name |-> model_name, inst |-> m],
                                     ModelCacheSize)],
                  sam |-> m]

\* _QPixmapForLruCache.__hash__: a hash of the pixel content
PixmapHash(pm) == pm.img * 31 + 7

\* equality of the wrapper objects themselves (object identity)
PixmapEq_Identity(a, b) == a.obj = b.obj

\* _QPixmapForLruCache.__eq__: the hashes agree
PixmapEq(a, b) == PixmapHash(a) = PixmapHash(b)

\* _QPixmapForLruCache(pixmap): a new wrapper object around the pixmap.
\* obj tells the objects apart: 0 is the wrapper this call creates, 1 a
\* wrapper an earlier call created
WrapPixmap(c, pm) == [obj |-> 0, img |-> pm.img]

\* _compute_image_embedding / __compute_image_embedding,
\* @lru_cache(maxsize=3) keyed by (sam, wrapped pixmap)
compute_image_embedding(c, sam, pm) ==
    LET key == WrapPixmap(c, pm)
        hits == {i \in DOMAIN c.embedCache :
                    /\ c.embedCache[i].sam = sam
                    /\ PixmapHash(c.embedCache[i].pixmap) = PixmapHash(key)
                    /\ PixmapEq(c.embedCache[i].pixmap, key)}
    IN  IF hits # {}
        THEN [c EXCEPT !.embedCache = LruTouch(@, SetMin(hits))]
        ELSE [c EXCEPT !.embedCache =
                          LruStore(@, [sam |-> sam,
                                       pixmap |-> [key EXCEPT !.obj = 1]],
                                   EmbeddingCacheSize),
                       !.nEncode = @ + 1]

\* update_shape_with_sam without the test on the extracted polygon's length
update_shape_with_sam_AnyPolygon(c, sam, pm, shape, cm, resp) ==
    IF cm \notin {"ai_polygon", "ai_mask"}
    THEN [c |-> Raise(c, "ValueError"), shape |-> shape]
    ELSE IF pm.isNone
    THEN [c |-> Raise(c, "TypeError"), shape |-> shape]
    ELSE LET c1 == compute_image_embedding(c, sam, pm)
         IN  IF resp.annotations = 0
             THEN [c |-> c1, shape |-> shape]
             ELSE IF cm = "ai_mask"
             THEN [c |-> c1,
                   shape |-> ShapeSetRefined(shape, "mask",
                                 <<Pt(resp.box[1], resp.box[2]),
                                   Pt(resp.box[3], resp.box[4])>>,
                                 <<1, 1>>, TRUE)]
             ELSE [c |-> c1,
                   shape |-> ShapeSetRefined(shape, "polygon", resp.polygon,
                                 [i \in DOMAIN resp.polygon |-> 1], FALSE)]

\* _update_shape_with_sam(sam, pixmap, shape, createMode): the state and
\* the shape afterwards
update_shape_with_sam(c, sam, pm, shape, cm, resp) ==
    IF cm \notin {"ai_polygon", "ai_mask"}
    THEN [c |-> Raise(c, "ValueError"), shape |-> shape]
    ELSE IF pm.isNone
    THEN [c |-> Raise(c, "TypeError"), shape |-> shape]
    ELSE LET c1 == compute_image_embedding(c, sam, pm)
         IN  IF resp.annotations = 0
             THEN [c |-> c1, shape |-> shape]
             ELSE IF cm = "ai_mask"
             THEN [c |-> c1,
                   shape |-> ShapeSetRefined(shape, "mask",
                                 <<Pt(resp.box[1], resp.box[2]),
                                   Pt(resp.box[3], resp.box[4])>>,
                                 <<1, 1>>, TRUE)]
             ELSE IF Len(resp.polygon) < 2
             THEN [c |-> c1, shape |-> shape]
             ELSE [c |-> c1,
                   shape |-> ShapeSetRefined(shape, "polygon", resp.polygon,
                                 [i \in DOMAIN resp.polygon |-> 1], FALSE)]

\* Canvas.set_ai_model_name
set_ai_model_name(c, model_name) == [c EXCEPT !.ai_model_name = model_name]

\* the call of _update_shape_with_sam made by finalise and paintEvent
refine(c, shape, cm, resp) ==
    LET g == get_ai_model(c, c.ai_model_name)
    IN  update_shape_with_sam(g.c, g.sam, c.pixmap, shape, cm, resp)

(***************************************************************************)
(* Pointer movement.  An event carries the pointer position in image       *)
(* coordinates, the buttons held and the modifier keys.                    *)
(***************************************************************************)
\* mouseMoveEvent while drawing: the rubber-band line follows the pointer
moveDrawing(c, pos, is_shift_pressed) ==
    LET c1 == [c EXCEPT !.line.shape_type =
                  IF IsAiMode(c.createMode) THEN "points" ELSE c.createMode]
    IN  IF ~Truthy(c1, c1.current) THEN c1
        ELSE
        LET cur == Obj(c1, c1.current)
            first == cur.points[1]
            last == cur.points[Len(cur.points)]
            ip == IF outOfPixmap(c1, pos)
                  THEN intersectionPoint(c1, last, pos)
                  ELSE IF /\ c1.snapping
                          /\ Len(cur.points) > 1
                          /\ c1.createMode = "polygon"
                          /\ closeEnough(c1, pos, first)
                  THEN [ok |-> TRUE, p |-> first]
                  ELSE [ok |-> TRUE, p |-> pos]
            cm == c1.createMode
        IN  IF ~ip.ok THEN Raise(c1, "ValueError")
            ELSE IF cm \in {"polygon", "linestrip"}
            THEN [c1 EXCEPT !.line.points = <<last, ip.p>>,
                            !.line.point_labels = <<1, 1>>]
            ELSE IF IsAiMode(cm)
            THEN IF cur.point_labels = <<>>
                 THEN Raise([c1 EXCEPT !.line.points = <<last, ip.p>>],
                            "IndexError")
                 ELSE [c1 EXCEPT
                         !.line.points = <<last, ip.p>>,
                         !.line.point_labels =
                             <<cur.point_labels[Len(cur.point_labels)],
                               IF is_shift_pressed THEN 0 ELSE 1>>]
            ELSE IF cm \in {"rectangle", "line"}
            THEN [c1 EXCEPT !.line.points = <<first, ip.p>>,
                            !.line.point_labels = <<1, 1>>,
                            !.line.closed = TRUE]
            ELSE IF cm = "circle"
            THEN [c1 EXCEPT !.line.points = <<first, ip.p>>,
                            !.line.point_labels = <<1, 1>>,
                            !.line.shape_type = "circle"]
            ELSE [c1 EXCEPT !.line.points = <<first>>,
                            !.line.point_labels = <<1>>,
                            !.line.closed = TRUE]

\* boundedMoveShapes called with the position object of a move event: the
\* call adjusts that object, which prevMovePoint also refers to
boundedMoveShapesOfEvent(c, addrs, pos) ==
    LET c1 == boundedMoveShapes(c, addrs, pos)
    IN  IF c1.exc # "none" THEN c1
        ELSE [c1 EXCEPT !.prevMovePoint = boundedPos(c, pos)]

\* mouseMoveEvent with the right button held: the shadow copies
moveCopies(c, pos) ==
    IF c.selectedShapesCopy # <<>> /\ PtTruthy(c.prevPoint)
    THEN boundedMoveShapesOfEvent(c, c.selectedShapesCopy, pos)
    ELSE IF c.selectedShapes # <<>>
    THEN LET al == AllocAll(c.heap, Values(c, c.selectedShapes))
         IN  [c EXCEPT !.heap = al.heap, !.selectedShapesCopy = al.addrs]
    ELSE c

\* a left-button move that records every intermediate position in the
\* history
moveDrag_StoreEachMove(c, pos) ==
    IF selectedVertex(c)
    THEN LET c1 == boundedMoveVertex(c, pos)
         IN  IF c1.exc # "none" THEN c1
             ELSE storeShapes([c1 EXCEPT !.movingShape = TRUE])
    ELSE IF c.selectedShapes # <<>> /\ PtTruthy(c.prevPoint)
    THEN LET c1 == boundedMoveShapesOfEvent(c, c.selectedShapes, pos)
         IN  IF c1.exc # "none" THEN c1
             ELSE storeShapes([c1 EXCEPT !.movingShape = TRUE])
    ELSE c

\* mouseMoveEvent with the left button held: a vertex or the selection
moveDrag(c, pos) ==
    IF selectedVertex(c)
    THEN LET c1 == boundedMoveVertex(c, pos)
         IN  IF c1.exc # "none" THEN c1 ELSE [c1 EXCEPT !.movingShape = TRUE]
    ELSE IF c.selectedShapes # <<>> /\ PtTruthy(c.prevPoint)
    THEN LET c1 == boundedMoveShapesOfEvent(c, c.selectedShapes, pos)
         IN  IF c1.exc # "none" THEN c1 ELSE [c1 EXCEPT !.movingShape = TRUE]
    ELSE c

\* what hovering at pos finds in the shape at address a: a vertex, an edge
\* that takes a new point, the interior, or nothing
HoverKind(c, a, pos) ==
    LET s == Obj(c, a)
    IN  IF ShapeNearestVertex(s, pos, c.epsilon) # None THEN "vertex"
        ELSE IF ShapeNearestEdge(s, pos, c.epsilon) # None /\ ShapeCanAddPoint(s)
        THEN "edge"
        ELSE IF ShapeContainsPoint(s, pos) THEN "inside"
        ELSE "nothing"

\* hover that looks at the bottom-most shape first
hover_BottomFirst(c, pos) ==
    LET found == {i \in DOMAIN c.shapes :
                     /\ isVisible(c, c.shapes[i])
                     /\ HoverKind(c, c.shapes[i], pos) # "nothing"}
    IN  IF found = {} THEN Emit(unHighlight(c), "vertexSelected")
        ELSE IF selectedVertex(c) /\ c.hShape = None
        THEN Raise(c, "AttributeError")
        ELSE
        LET shape == c.shapes[SetMin(found)]
            s == Obj(c, shape)
            kind == HoverKind(c, shape, pos)
            c1 == [c EXCEPT !.prevhShape = shape, !.hShape = shape]
        IN  Emit(IF kind = "vertex"
                 THEN [c1 EXCEPT
                         !.prevhVertex = ShapeNearestVertex(s, pos, c.epsilon),
                         !.hVertex = ShapeNearestVertex(s, pos, c.epsilon),
                         !.prevhEdge = c.hEdge, !.hEdge = None]
                 ELSE IF kind = "edge"
                 THEN [c1 EXCEPT
                         !.prevhVertex = c.hVertex, !.hVertex = None,
                         !.prevhEdge = ShapeNearestEdge(s, pos, c.epsilon),
                         !.hEdge = ShapeNearestEdge(s, pos, c.epsilon)]
                 ELSE [c1 EXCEPT
                         !.prevhVertex = c.hVertex, !.hVertex = None,
                         !.prevhEdge = c.hEdge, !.hEdge = None],
                 "vertexSelected")

\* mouseMoveEvent with no button held: the highlight follows the pointer
hover(c, pos) ==
    LET found == {i \in DOMAIN c.shapes :
                     /\ isVisible(c, c.shapes[i])
                     /\ HoverKind(c, c.shapes[i], pos) # "nothing"}
    IN  IF found = {} THEN Emit(unHighlight(c), "vertexSelected")
        ELSE IF selectedVertex(c) /\ c.hShape = None
        THEN Raise(c, "AttributeError")
        ELSE
        LET shape == c.shapes[SetMax(found)]
            s == Obj(c, shape)
            kind == HoverKind(c, shape, pos)
            c1 == [c EXCEPT !.prevhShape = shape, !.hShape = shape]
        IN  Emit(IF kind = "vertex"
                 THEN [c1 EXCEPT
                         !.prevhVertex = ShapeNearestVertex(s, pos, c.epsilon),
                         !.hVertex = ShapeNearestVertex(s, pos, c.epsilon),
                         !.prevhEdge = c.hEdge, !.hEdge = None]
                 ELSE IF kind = "edge"
                 THEN [c1 EXCEPT
                         !.prevhVertex = c.hVertex, !.hVertex = None,
                         !.prevhEdge = ShapeNearestEdge(s, pos, c.epsilon),
                         !.hEdge = ShapeNearestEdge(s, pos, c.epsilon)]
                 ELSE [c1 EXCEPT
                         !.prevhVertex = c.hVertex, !.hVertex = None,
                         !.prevhEdge = c.hEdge, !.hEdge = None],
                 "vertexSelected")

\* Canvas.mouseMoveEvent
mouseMoveEvent(c, pos, buttons, mods) ==
    IF transformPosRaises(c) THEN c
    ELSE IF c.zoom_mode /\ c.zoom_rect THEN c
    ELSE LET c1 == [Emit(c, "mouseMoved") EXCEPT !.prevMovePoint = pos]
         IN  IF drawing(c1) THEN moveDrawing(c1, pos, "shift" \in mods)
             ELSE IF "right" \in buttons THEN moveCopies(c1, pos)
             ELSE IF "left" \in buttons THEN moveDrag(c1, pos)
             ELSE hover(c1, pos)

(***************************************************************************)
(* Completing a shape, presses and releases.                               *)
(***************************************************************************)
\* finalise that emits newShape before it appends the shape
finalise_EmitFirst(c, resp) ==
    IF ~Truthy(c, c.current) THEN Raise(c, "AssertionError")
    ELSE LET r == IF IsAiMode(c.createMode)
                  THEN refine(c, Obj(c, c.current), c.createMode, resp)
                  ELSE [c |-> c, shape |-> Obj(c, c.current)]
         IN  IF r.c.exc # "none" THEN r.c
             ELSE LET c0 == EmitNewShape(r.c)
                      c1 == SetObj(c0, c.current, ShapeClose(r.shape))
                      c2 == storeShapes([c1 EXCEPT !.shapes = Append(@, c.current)])
                  IN  [c2 EXCEPT !.current = None]

\* Canvas.finalise; resp is the answer of the oracle if it is asked
finalise(c, resp) ==
    IF ~Truthy(c, c.current) THEN Raise(c, "AssertionError")
    ELSE LET r == IF IsAiMode(c.createMode)
                  THEN refine(c, Obj(c, c.current), c.createMode, resp)
                  ELSE [c |-> c, shape |-> Obj(c, c.current)]
         IN  IF r.c.exc # "none" THEN r.c
             ELSE LET c1 == SetObj(r.c, c.current, ShapeClose(r.shape))
                      c2 == storeShapes([c1 EXCEPT !.shapes = Append(@, c.current)])
                  IN  EmitNewShape([c2 EXCEPT !.current = None])

\* self.line[0] = p
SetLineStart(c, p) ==
    IF c.line.points = <<>> THEN Raise(c, "IndexError")
    ELSE [c EXCEPT !.line.points[1] = p]

\* the current shape after addPoint(p, label), and the line restarted at its
\* last vertex
AddPointToCurrent(c, p, label) ==
    LET cur == ShapeAddPoint(Obj(c, c.current), p, label)
    IN  SetLineStart(SetObj(c, c.current, cur), cur.points[Len(cur.points)])

\* the second click that completes without taking the rubber line's points
completeTwoPoint_KeepStart(c, resp) == finalise(c, resp)

\* the second click of a rectangle, circle or line: the shape takes the
\* rubber line's two points and is completed
completeTwoPoint(c, resp) ==
    finalise(SetObj(c, c.current,
                    [Obj(c, c.current) EXCEPT !.points = c.line.points]),
             resp)

\* mousePressEvent, left button while drawing with a shape in progress
pressAddPoint(c, mods, resp) ==
    LET cm == c.createMode
        cur == Obj(c, c.current)
    IN  IF cm = "polygon"
        THEN IF Len(c.line.points) > 1
             THEN LET c1 == AddPointToCurrent(c, c.line.points[2], 1)
                  IN  IF c1.exc = "none" /\ Obj(c1, c1.current).closed
                      THEN finalise(c1, resp)
                      ELSE c1
             ELSE c
        ELSE IF cm \in {"rectangle", "circle", "line"}
        THEN IF Len(cur.points) = 1 /\ Len(c.line.points) = 2
             THEN completeTwoPoint(c, resp)
             ELSE c
        ELSE IF cm = "linestrip"
        THEN IF Len(c.line.points) > 1
             THEN LET c1 == AddPointToCurrent(c, c.line.points[2], 1)
                  IN  IF c1.exc = "none" /\ mods = {"ctrl"}
                      THEN finalise(c1, resp)
                      ELSE c1
             ELSE c
        ELSE IF IsAiMode(cm)
        THEN IF Len(c.line.points) > 1 /\ Len(c.line.point_labels) > 1
             THEN LET c1 == AddPointToCurrent(c, c.line.points[2],
                                              c.line.point_labels[2])
                      labels == Obj(c1, c1.current).point_labels
                  IN  IF c1.exc # "none" THEN c1
                      ELSE IF labels = <<>> THEN Raise(c1, "IndexError")
                      ELSE LET c2 == [c1 EXCEPT !.line.point_labels[1] =
                                                    labels[Len(labels)]]
                           IN  IF "ctrl" \in mods THEN finalise(c2, resp)
                               ELSE c2
             ELSE c
        ELSE c

\* mousePressEvent, left button while drawing with no shape in progress
pressNewShape(c, pos, mods, resp) ==
    LET cm == c.createMode
        is_shift_pressed == "shift" \in mods
        a == FreshAddr(c.heap)
        shape == ShapeAddPoint(NewShape(IF IsAiMode(cm) THEN "points" ELSE cm),
                               pos, IF is_shift_pressed THEN 0 ELSE 1)
        c1 == [c EXCEPT !.heap = c.heap @@ (a :> shape), !.current = a,
                        !.prevMovePoint = IF cm = "rectangle" THEN pos ELSE @]
    IN  IF cm = "point" THEN finalise(c1, resp)
        ELSE IF IsAiMode(cm) /\ "ctrl" \in mods THEN finalise(c1, resp)
        ELSE Emit([c1 EXCEPT
                     !.line.points = <<pos, pos>>,
                     !.line.point_labels =
                         IF IsAiMode(cm) /\ is_shift_pressed
                         THEN <<0, 0>> ELSE <<1, 1>>],
                  "drawingPolygon")

\* mousePressEvent, left button while editing
pressEdit(c, pos, mods) ==
    LET c1 == IF selectedEdge(c) THEN addPointToEdge(c)
              ELSE IF selectedVertex(c) /\ mods = {"alt", "shift"}
              THEN removeSelectedPoint(c)
              ELSE c
    IN  IF c1.exc # "none" THEN c1
        ELSE [selectShapePoint(c1, pos, mods = {"ctrl"}) EXCEPT !.prevPoint = pos]

\* Canvas.mousePressEvent
mousePressEvent(c, pos, button, mods, resp) ==
    IF transformPosRaises(c) THEN Raise(c, "AttributeError")
    ELSE IF c.zoom_mode /\ button = "left" THEN [c EXCEPT !.zoom_rect = TRUE]
    ELSE
    LET c1 == IF button = "left" /\ drawing(c) /\ c.createMode = "polygon"
              THEN [c EXCEPT !.holding_mouse = TRUE]
              ELSE c
    IN  IF button = "left"
        THEN IF drawing(c1)
             THEN IF Truthy(c1, c1.current) THEN pressAddPoint(c1, mods, resp)
                  ELSE IF ~outOfPixmap(c1, pos)
                  THEN pressNewShape(c1, pos, mods, resp)
                  ELSE c1
             ELSE pressEdit(c1, pos, mods)
        ELSE IF button = "right" /\ editing(c1)
        THEN LET c2 == IF \/ c1.selectedShapes = <<>>
                          \/ /\ c1.hShape # None
                             /\ c1.hShape \notin Range(c1.selectedShapes)
                       THEN selectShapePoint(c1, pos, mods = {"ctrl"})
                       ELSE c1
             IN  [c2 EXCEPT !.prevPoint = pos]
        ELSE c1

\* the end of mouseReleaseEvent and of keyReleaseEvent: a snapshot if the
\* moved shape differs from its record in the latest snapshot
storeIfMoved(c, shape) ==
    LET index == IndexOf(c.shapes, shape)
    IN  IF index = None THEN Raise(c, "ValueError")
        ELSE IF c.shapesBackups = <<>> THEN Raise(c, "IndexError")
        ELSE LET top == c.shapesBackups[Len(c.shapesBackups)]
             IN  IF index > Len(top) THEN Raise(c, "IndexError")
                 ELSE LET c1 == IF top[index].points # Obj(c, shape).points
                                THEN Emit(storeShapes(c), "shapeMoved")
                                ELSE c
                      IN  [c1 EXCEPT !.movingShape = FALSE]

\* Canvas.mouseReleaseEvent; menu_chosen: the context menu returned an action
mouseReleaseEvent(c, button, menu_chosen) ==
    LET c1 == IF button = "left" /\ drawing(c) /\ c.createMode = "polygon"
              THEN [c EXCEPT !.holding_mouse = FALSE]
              ELSE c
        c2 == IF button = "right"
              THEN IF ~menu_chosen /\ c1.selectedShapesCopy # <<>>
                   THEN [c1 EXCEPT !.selectedShapesCopy = <<>>]
                   ELSE c1
              ELSE IF /\ button = "left"
                      /\ editing(c1)
                      /\ c1.hShape # None
                      /\ c1.hShapeIsSelected
                      /\ ~c1.movingShape
              THEN shapeSelectionChanged(c1,
                       SelectSeq(c1.selectedShapes, LAMBDA x : x # c1.hShape))
              ELSE c1
        c3 == IF c2.movingShape /\ Truthy(c2, c2.hShape)
              THEN storeIfMoved(c2, c2.hShape)
              ELSE c2
    IN  IF c3.exc # "none" THEN c3
        ELSE IF c3.zoom_mode /\ button = "left"
        THEN [c3 EXCEPT !.zoom_rect = FALSE, !.zoom_mode = FALSE]
        ELSE c3

(***************************************************************************)
(* The other handlers and host-facing methods.                             *)
(***************************************************************************)
\* Canvas.endMove(copy)
endMove(c, copy) ==
    IF c.selectedShapes = <<>> \/ c.selectedShapesCopy = <<>>
    THEN Raise(c, "AssertionError")
    ELSE IF Len(c.selectedShapesCopy) # Len(c.selectedShapes)
    THEN Raise(c, "AssertionError")
    ELSE LET n == Len(c.selectedShapesCopy)
             c1 == IF copy
                   THEN [c EXCEPT
                           !.shapes = @ \o c.selectedShapesCopy,
                           !.heap = [a \in DOMAIN c.heap |->
                                       IF a \in Range(c.selectedShapes)
                                       THEN [c.heap[a] EXCEPT !.selected = FALSE]
                                       ELSE c.heap[a]],
                           !.selectedShapes = c.selectedShapesCopy]
                   ELSE [c EXCEPT
                           !.heap = [a \in DOMAIN c.heap |->
                                       IF a \in Range(c.selectedShapes)
                                       THEN [c.heap[a] EXCEPT !.points =
                                              c.heap[c.selectedShapesCopy[
                                                  SetMax({i \in 1..n :
                                                      c.selectedShapes[i] = a})]
                                                ].points]
                                       ELSE c.heap[a]]]
         IN  storeShapes([c1 EXCEPT !.selectedShapesCopy = <<>>])

\* canCloseShape that accepts any shape in progress
canCloseShape_AnyCurrent(c) ==
    /\ drawing(c)
    /\ \/ Truthy(c, c.current)
       \/ IsAiMode(c.createMode)

\* Canvas.canCloseShape
canCloseShape(c) ==
    /\ drawing(c)
    /\ \/ Truthy(c, c.current) /\ Len(Obj(c, c.current).points) > 2
       \/ IsAiMode(c.createMode)

\* Canvas.mouseDoubleClickEvent
mouseDoubleClickEvent(c, resp) ==
    IF ~c.double_click THEN c
    ELSE IF (c.createMode = "polygon" /\ canCloseShape(c)) \/ IsAiMode(c.createMode)
    THEN finalise(c, resp)
    ELSE c

\* keyPressEvent whose Escape takes back the last vertex only
keyPressEvent_EscapePopsPoint(c, key, mods, resp) ==
    IF drawing(c)
    THEN IF key = "Escape" /\ Truthy(c, c.current)
         THEN LET cur == ShapePopPoint(Obj(c, c.current))
              IN  IF Len(cur.points) > 0 THEN SetObj(c, c.current, cur)
                  ELSE Emit([c EXCEPT !.current = None], "drawingPolygon")
         ELSE IF key = "Return" /\ canCloseShape(c) THEN finalise(c, resp)
         ELSE IF mods = {"alt"} THEN [c EXCEPT !.snapping = FALSE]
         ELSE c
    ELSE c

\* Canvas.keyPressEvent; key is "Escape", "Return", "Up", "Down", "Left",
\* "Right" or "other"
keyPressEvent(c, key, mods, resp) ==
    IF drawing(c)
    THEN IF key = "Escape" /\ Truthy(c, c.current)
         THEN Emit([c EXCEPT !.current = None], "drawingPolygon")
         ELSE IF key = "Return" /\ canCloseShape(c) THEN finalise(c, resp)
         ELSE IF mods = {"alt"} THEN [c EXCEPT !.snapping = FALSE]
         ELSE c
    ELSE IF key = "Up" THEN moveByKeyboard(c, Pt(0, 0 - Px(MOVE_SPEED)))
    ELSE IF key = "Down" THEN moveByKeyboard(c, Pt(0, Px(MOVE_SPEED)))
    ELSE IF key = "Left" THEN moveByKeyboard(c, Pt(0 - Px(MOVE_SPEED), 0))
    ELSE IF key = "Right" THEN moveByKeyboard(c, Pt(Px(MOVE_SPEED), 0))
    ELSE c

\* Canvas.keyReleaseEvent
keyReleaseEvent(c, mods) ==
    IF drawing(c)
    THEN IF mods = {} THEN [c EXCEPT !.snapping = TRUE] ELSE c
    ELSE IF c.movingShape /\ c.selectedShapes # <<>>
    THEN storeIfMoved(c, c.selectedShapes[1])
    ELSE c

\* paintEvent whose live preview refines the shape in progress itself
paintEvent_RefinesCurrent(c, fill_drawing, resp) ==
    IF c.pixmap.isNone \/ ~Truthy(c, c.current) THEN c
    ELSE LET cur == Obj(c, c.current)
             cm == c.createMode
         IN  IF Len(c.line.points) # Len(c.line.point_labels)
             THEN Raise(c, "AssertionError")
             ELSE IF /\ cm = "polygon"
                     /\ fill_drawing
                     /\ Len(cur.points) >= 2
                     /\ Len(c.line.points) < 2
             THEN Raise(c, "IndexError")
             ELSE IF ~IsAiMode(cm) THEN c
             ELSE IF Len(c.line.points) < 2 THEN Raise(c, "IndexError")
             ELSE LET r == refine(c, ShapeAddPoint(cur, c.line.points[2],
                                                   c.line.point_labels[2]),
                                  cm, resp)
                  IN  SetObj(r.c, c.current, r.shape)

\* Canvas.paintEvent, as far as it reads and writes the canvas: the two
\* assertions and index reads on the rubber-band line, and the live preview
\* of the AI modes, computed on a copy of the shape in progress.
\* fill_drawing is self._fill_drawing, which the host sets (setFillDrawing)
paintEvent(c, fill_drawing, resp) ==
    IF c.pixmap.isNone \/ ~Truthy(c, c.current) THEN c
    ELSE LET cur == Obj(c, c.current)
             cm == c.createMode
         IN  IF Len(c.line.points) # Len(c.line.point_labels)
             THEN Raise(c, "AssertionError")
             ELSE IF /\ cm = "polygon"
                     /\ fill_drawing
                     /\ Len(cur.points) >= 2
                     /\ Len(c.line.points) < 2
             THEN Raise(c, "IndexError")
             ELSE IF ~IsAiMode(cm) THEN c
             ELSE IF Len(c.line.points) < 2 THEN Raise(c, "IndexError")
             ELSE LET drawing_shape ==
                          ShapeAddPoint(cur, c.line.points[2],
                                        c.line.point_labels[2])
                  IN  refine(c, drawing_shape, cm, resp).c

\* setLastLabel that stores the relabelled shape set on top of the history
setLastLabel_NoPop(c, text) ==
    IF c.shapes = <<>> THEN Raise(c, "IndexError")
    ELSE LET a == c.shapes[Len(c.shapes)]
             c1 == SetObj(c, a, [Obj(c, a) EXCEPT !.label = text])
         IN  IF c1.shapesBackups = <<>> THEN Raise(c1, "IndexError")
             ELSE storeShapes(c1)

\* Canvas.setLastLabel(text, flags), text not empty
setLastLabel(c, text) ==
    IF c.shapes = <<>> THEN Raise(c, "IndexError")
    ELSE LET a == c.shapes[Len(c.shapes)]
             c1 == SetObj(c, a, [Obj(c, a) EXCEPT !.label = text])
         IN  IF c1.shapesBackups = <<>> THEN Raise(c1, "IndexError")
             ELSE storeShapes([c1 EXCEPT !.shapesBackups = ButLast(@)])

\* Canvas.undoLastLine
undoLastLine(c) ==
    IF c.shapes = <<>> THEN Raise(c, "AssertionError")
    ELSE LET a == c.shapes[Len(c.shapes)]
             cur == ShapeRestoreRaw(ShapeSetOpen(Obj(c, a)))
             c1 == SetObj([c EXCEPT !.shapes = ButLast(@), !.current = a],
                          a, cur)
             cm == c.createMode
         IN  IF cm \in {"polygon", "linestrip"}
             THEN IF cur.points = <<>> THEN Raise(c1, "IndexError")
                  ELSE Emit([c1 EXCEPT !.line.points =
                                <<cur.points[Len(cur.points)], cur.points[1]>>],
                            "drawingPolygon")
             ELSE IF cm \in {"rectangle", "line", "circle"}
             THEN Emit(SetObj(c1, a, [cur EXCEPT !.points = SubSeq(@, 1,
                                          IF Len(@) > 0 THEN 1 ELSE 0)]),
                       "drawingPolygon")
             ELSE IF cm = "point"
             THEN Emit([c1 EXCEPT !.current = None], "drawingPolygon")
             ELSE Emit(c1, "drawingPolygon")

\* Canvas.undoLastPoint
undoLastPoint(c) ==
    IF ~Truthy(c, c.current) \/ Obj(c, c.current).closed THEN c
    ELSE LET cur == ShapePopPoint(Obj(c, c.current))
             c1 == SetObj(c, c.current, cur)
         IN  IF Len(cur.points) > 0
             THEN SetLineStart(c1, cur.points[Len(cur.points)])
             ELSE Emit([c1 EXCEPT !.current = None], "drawingPolygon")

\* Canvas.add_point_under_cursor, a tick of the hold timer with the cursor
\* at pos
add_point_under_cursor(c, pos) ==
    IF ~c.holding_mouse \/ ~drawing(c) \/ c.createMode # "polygon" THEN c
    ELSE IF transformPosRaises(c) THEN Raise(c, "AttributeError")
    ELSE IF Truthy(c, c.current) THEN AddPointToCurrent(c, pos, 1)
    ELSE c

(***************************************************************************)
(* The host application (labelme/app.py, not among the sources).  It       *)
(* builds Shape objects vertex by vertex and hands them to loadShapes, and *)
(* realises undo as restoreShape followed by loadShapes of the restored    *)
(* set (canvas.py, the comment in restoreShape).                           *)
(***************************************************************************)
\* a shape as the host builds it: addPoint per vertex, then close()
HostShape(t, pts) ==
    [NewShape(t) EXCEPT !.points = pts,
                        !.point_labels = [i \in DOMAIN pts |-> 1],
                        !.closed = TRUE]

RectA == HostShape("rectangle", <<Pt(0, 0), Pt(Px(1), Px(1))>>)

TriB == HostShape("polygon", <<Pt(Px(1), 0), Pt(Px(2), 0), Pt(Px(2), Px(2))>>)

\* the lists of shapes the host loads
HostLists == {<<>>, <<RectA>>, <<TriB>>, <<RectA, TriB>>}

\* loadShapes of freshly built shapes
hostLoadShapes(c, vals, replace) ==
    LET al == AllocAll(c.heap, vals)
    IN  loadShapes([c EXCEPT !.heap = al.heap], al.addrs, replace)

\* undoShapeEdit: restoreShape, then loadShapes(canvas.shapes)
undoShapeEdit(c) ==
    LET c1 == restoreShape(c)
    IN  loadShapes(c1, c1.shapes, TRUE)

(***************************************************************************)
(* SpecHistory: a freshly constructed canvas on which the host only        *)
(* pushes snapshots (loadShapes that extends the shape set, deleteShape).  *)
(* ghost.pushes counts the storeShapes calls.                              *)
(***************************************************************************)
Capacities == (1..MaxBackups) \cup {DefaultNumBackups}

InitHistory ==
    /\ \E n \in Capacities : Install(InitCanvas(n, TRUE))
    /\ ghost = [pushes |-> 0]

HistExtend ==
    /\ ghost.pushes < MaxPushes
    /\ Len(shapes) < MaxShapes
    /\ Commit(hostLoadShapes(Begin(Self, "loadShapes"), <<RectA>>, FALSE))
    /\ ghost' = [pushes |-> ghost.pushes + nStore']

HistDelete ==
    /\ ghost.pushes < MaxPushes
    /\ Len(shapes) > 0
    /\ Commit(deleteShape(Begin(Self, "deleteShape"), shapes[Len(shapes)]))
    /\ ghost' = [pushes |-> ghost.pushes + nStore']

NextHistory == HistExtend \/ HistDelete

SpecHistory == InitHistory /\ [][NextHistory]_vars

\* C1: after any sequence of storeShapes pushes the history never holds more
\* than num_backups+1 entries; 12 pushes with num_backups = 10 leave exactly
\* 11 entries.
C1_HistoryWithinCapacity ==
    /\ Len(shapesBackups) <= num_backups + 1
    /\ (num_backups = DefaultNumBackups /\ ghost.pushes = 12)
           => Len(shapesBackups) = 11


(***************************************************************************)
(* SpecFifo: a freshly constructed canvas on which the host pushes         *)
(* snapshots, each of a shape set unlike the ones before it: every loaded  *)
(* shape carries the next label.  ghost.log is the sequence of the         *)
(* snapshots pushed, in push order.                                        *)
(***************************************************************************)
\* labels of the shapes the host loads, one per push
FifoLabels == <<"a", "b", "c", "d", "e", "f", "g", "h">>

FifoShape(k) == [RectA EXCEPT !.label = FifoLabels[k]]

InitFifo ==
    /\ \E n \in 1..MaxBackups : Install(InitCanvas(n, TRUE))
    /\ ghost = [log |-> <<>>]

FifoLoad ==
    /\ Len(ghost.log) < FifoPushes
    /\ \E replace \in BOOLEAN :
           /\ replace \/ Len(shapes) < MaxShapes
           /\ Commit(hostLoadShapes(Begin(Self, "loadShapes"),
                                    <<FifoShape(Len(ghost.log) + 1)>>, replace))
    /\ ghost' = [log |-> Append(ghost.log, Values(Self', shapes'))]

FifoDelete ==
    /\ Len(ghost.log) < FifoPushes
    /\ \E i \in DOMAIN shapes :
           Commit(deleteShape(Begin(Self, "deleteShape"), shapes[i]))
    /\ ghost' = [log |-> Append(ghost.log, Values(Self', shapes'))]

NextFifo == FifoLoad \/ FifoDelete

SpecFifo == InitFifo /\ [][NextFifo]_vars

\* C17: after any sequence of pushes the history is a suffix of the sequence
\* of pushed snapshots, in push order and ending with the latest push
C17_HistoryIsSuffixOfPushes ==
    /\ Len(shapesBackups) <= Len(ghost.log)
    /\ shapesBackups = LastN(ghost.log, Len(shapesBackups))
    /\ ghost.log # <<>> => shapesBackups # <<>>

\* pushes have evicted at least two snapshots
C17_Witness ==
    /\ lastOp \in {"loadShapes", "deleteShape"}
    /\ Len(ghost.log) >= Len(shapesBackups) + 2
    /\ shapesBackups # <<>>

(***************************************************************************)
(* SpecUndo: the host loads an initial shape set, edits it (each edit      *)
(* followed by one storeShapes) and undoes.  ghost.depth is the number of  *)
(* edits not yet undone, ghost.undone the undos since the last edit.       *)
(***************************************************************************)
InitUndo ==
    \E n \in 1..MaxBackups, l \in HostLists :
        /\ Install(hostLoadShapes(InitCanvas(n, TRUE), l, TRUE))
        /\ ghost = [initial |-> l, depth |-> 0, undone |-> 0]

\* an edit that adds a shape
UndoEditExtend ==
    /\ ghost.depth < num_backups
    /\ Len(shapes) < MaxShapes
    /\ \E v \in {RectA, TriB} :
          Commit(hostLoadShapes(Begin(Self, "loadShapes"), <<v>>, FALSE))
    /\ ghost' = [ghost EXCEPT !.depth = @ + 1, !.undone = 0]

\* an edit that removes a shape
UndoEditDelete ==
    /\ ghost.depth < num_backups
    /\ \E i \in DOMAIN shapes :
          Commit(deleteShape(Begin(Self, "deleteShape"), shapes[i]))
    /\ ghost' = [ghost EXCEPT !.depth = @ + 1, !.undone = 0]

UndoUndo ==
    /\ ghost.depth > 0
    /\ Commit(undoShapeEdit(Begin(Self, "restoreShape")))
    /\ ghost' = [ghost EXCEPT !.depth = @ - 1, !.undone = @ + 1]

NextUndo == UndoEditExtend \/ UndoEditDelete \/ UndoUndo

SpecUndo == InitUndo /\ [][NextUndo]_vars

\* C2: undo round-trip: after N edits, each followed by one storeShapes
\* (N <= num_backups), and N undos, the live shape set equals the initial
\* one and the history holds exactly that one entry.
C2_UndoRoundTrip ==
    ghost.depth = 0 =>
        /\ Values(Self, shapes) = ghost.initial
        /\ shapesBackups = <<ghost.initial>>

\* N = num_backups >= 2 edits have just been undone one by one
C2_Witness ==
    /\ ghost.depth = 0
    /\ ghost.undone = num_backups
    /\ num_backups >= 2


(***************************************************************************)
(* SpecMove: an image is loaded, the host has loaded shapes lying inside   *)
(* it, a press inside one of them has selected some of them (the clicked   *)
(* one included) and computed the offsets; then the pointer drags the      *)
(* selection or arrow keys nudge it.                                       *)
(***************************************************************************)
\* points of the image on the 1/Sub-pixel grid
ImagePoints == {Pt(x, y) : x \in 0..Px(ImgW - 1), y \in 0..Px(ImgH - 1)}

\* pointer positions: the widget's pixels, which the view transform maps to
\* whole image pixels displaced by one fixed fraction f (offsetToCenter); they
\* cover the image and a margin of one pixel around it
PointerPoints(f) == {Pt(Px(i) + f, Px(j) + f) : i \in (-1)..ImgW, j \in (-1)..ImgH}

\* rectangles with distinct corners p < q inside the image
ImageRects ==
    {HostShape("rectangle", <<p, q>>) : <<p, q>> \in
        {pq \in ImagePoints \X ImagePoints :
            pq[1][1] < pq[2][1] /\ pq[1][2] < pq[2][2]}}

InRect(s, p) ==
    LET r == ShapeBoundingRect(s)
    IN  r[1] <= p[1] /\ p[1] <= r[3] /\ r[2] <= p[2] /\ p[2] <= r[4]

\* the state right after the press that selected sel (addresses)
Pressed(c, sel, point) ==
    LET c1 == [c EXCEPT !.selectedShapes = sel,
                        !.heap = [a \in DOMAIN c.heap |->
                                    [c.heap[a] EXCEPT !.selected = a \in Range(sel)]]]
        c2 == calculateOffsets(c1, point)
    IN  [c2 EXCEPT !.prevPoint = point]

InitMove ==
    \E r \in ImageRects, extra \in {<<>>, <<RectA>>}, f \in 0..(Sub - 1) :
        \E point \in PointerPoints(f) \cap ImagePoints :
            /\ InRect(r, point)
            /\ LET c0 == loadPixmap(InitCanvas(1, TRUE), Pixmap(ImgW, ImgH, 1), TRUE)
                   c1 == hostLoadShapes(c0, <<r>> \o extra, TRUE)
               IN  Install(Pressed(c1, c1.shapes, point))
            /\ ghost = [press |-> point, frac |-> f]

MoveDrag ==
    \E pos \in PointerPoints(ghost.frac) :
        /\ Commit(boundedMoveShapes(Begin(Self, "mouseMoveEvent"),
                                    selectedShapes, pos))
        /\ UNCHANGED ghost

MoveKey ==
    \E d \in {Pt(0, -Px(MOVE_SPEED)), Pt(0, Px(MOVE_SPEED)),
              Pt(-Px(MOVE_SPEED), 0), Pt(Px(MOVE_SPEED), 0)} :
        /\ Commit(moveByKeyboard(Begin(Self, "keyPressEvent"), d))
        /\ UNCHANGED ghost

NextMove == MoveDrag \/ MoveKey

SpecMove == InitMove /\ [][NextMove]_vars

\* the combined bounding box of the selection
SelectionBox ==
    LET rects == {ShapeBoundingRect(heap[selectedShapes[i]]) :
                      i \in DOMAIN selectedShapes}
    IN  <<SetMin({r[1] : r \in rects}), SetMin({r[2] : r \in rects}),
          SetMax({r[3] : r \in rects}), SetMax({r[4] : r \in rects})>>

\* C3: for a selection inside the image and offsets computed at the press
\* point, after boundedMoveShapes the selection's bounding box lies within
\* [0, width-1] x [0, height-1], whatever pointer position is requested.
C3_MoveStaysInImage ==
    /\ 0 <= SelectionBox[1]
    /\ 0 <= SelectionBox[2]
    /\ SelectionBox[3] <= Px(ImgW - 1)
    /\ SelectionBox[4] <= Px(ImgH - 1)


(***************************************************************************)
(* SpecClamp: the selection moves of SpecMove, with the requested position *)
(* of the last move kept in ghost.req (for an arrow key: prevPoint plus the *)
(* key's offset).                                                          *)
(***************************************************************************)
InitClamp ==
    \E r \in {RectA, HostShape("rectangle", <<Pt(1, 1), Pt(Px(1) + 1, Px(2))>>)},
       f \in 0..(Sub - 1) :
        \E point \in PointerPoints(f) \cap ImagePoints :
            /\ InRect(r, point)
            /\ LET c0 == loadPixmap(InitCanvas(1, TRUE), Pixmap(ImgW, ImgH, 1), TRUE)
                   c1 == hostLoadShapes(c0, <<r>>, TRUE)
               IN  Install(Pressed(c1, c1.shapes, point))
            /\ ghost = [frac |-> f, req |-> point]

ClampDrag ==
    \E pos \in PointerPoints(ghost.frac) :
        /\ Commit(boundedMoveShapes(Begin(Self, "mouseMoveEvent"),
                                    selectedShapes, pos))
        /\ ghost' = [ghost EXCEPT !.req = pos]

ClampKey ==
    \E d \in {Pt(0, -Px(MOVE_SPEED)), Pt(0, Px(MOVE_SPEED)),
              Pt(-Px(MOVE_SPEED), 0), Pt(Px(MOVE_SPEED), 0)} :
        /\ Commit(moveByKeyboard(Begin(Self, "keyPressEvent"), d))
        /\ ghost' = [ghost EXCEPT !.req = PtAdd(prevPoint, d)]

NextClamp == ClampDrag \/ ClampKey

SpecClamp == InitClamp /\ [][NextClamp]_vars

\* C14: a move request whose target would take the selection's bounding box
\* out of [0, width-1] x [0, height-1] still moves the selection: along each
\* axis on which the request points towards a bound the box has not reached,
\* the box moves that way
C14_MoveClampedNeverRejected ==
    [][LET b == SelectionBox
           dx == ghost'.req[1] - prevPoint[1]
           dy == ghost'.req[2] - prevPoint[2]
           leaves == \/ b[1] + dx < 0 \/ b[3] + dx > Px(ImgW - 1)
                     \/ b[2] + dy < 0 \/ b[4] + dy > Px(ImgH - 1)
       IN  leaves =>
             /\ (dx > 0 /\ b[3] < Px(ImgW - 1)) => SelectionBox'[1] > b[1]
             /\ (dx < 0 /\ b[1] > 0) => SelectionBox'[1] < b[1]
             /\ (dy > 0 /\ b[4] < Px(ImgH - 1)) => SelectionBox'[2] > b[2]
             /\ (dy < 0 /\ b[2] > 0) => SelectionBox'[2] < b[2]]_vars

(***************************************************************************)
(* SpecSam: refinements through the AI-assist bridge.  The host loads      *)
(* images and names models; a refinement is the call that finalise and     *)
(* paintEvent make, on a prompt shape.                                     *)
(***************************************************************************)
ModelNames == {"sam2:latest", "efficientsam:latest"}
Images == {1, 2}
Pairs == ModelNames \X Images

\* prompt shapes: one positive point, or a positive and a negative point
PromptShape(pts, labels) ==
    [NewShape("points") EXCEPT !.points = pts, !.point_labels = labels]

Prompts ==
    {PromptShape(<<Pt(Px(1), Px(1))>>, <<1>>),
     PromptShape(<<Pt(Px(1), Px(1)), Pt(Px(2), Px(0))>>, <<1, 0>>)}

\* answers of the oracle and of the polygon extractor
NoAnnotation == [annotations |-> 0, box |-> <<0, 0, 0, 0>>, polygon |-> <<>>]

\* an ai_mask refinement reads the answer's box, an ai_polygon refinement
\* the extracted polygon
Responses(cm) ==
    {NoAnnotation} \cup
    IF cm = "ai_mask"
    THEN {[annotations |-> 1, box |-> <<0, 0, Px(2), Px(1)>>, polygon |-> <<>>]}
    ELSE {[annotations |-> 1, box |-> <<0, 0, 0, 0>>, polygon |-> pl] :
             pl \in {<<>>, <<Pt(0, 0)>>,
                     <<Pt(0, 0), Pt(Px(2), 0), Pt(Px(2), Px(2))>>}}

InitSam ==
    /\ \E img \in Images :
           Install(loadPixmap(InitCanvas(DefaultNumBackups, TRUE),
                              Pixmap(ImgW, ImgH, img), TRUE))
    /\ ghost = [pair |-> <<>>, prevPair |-> <<>>, prevEncode |-> 0,
                samePrompt |-> FALSE,
                before |-> NewShape("points"), after |-> NewShape("points"),
                cm |-> "ai_polygon", resp |-> NoAnnotation]

\* the host shows an image: a new pixmap object with content img
SamLoadPixmap ==
    \E img \in Images :
        /\ Commit(Begin(loadPixmap(Self, Pixmap(ImgW, ImgH, img), TRUE),
                        "loadPixmap"))
        /\ UNCHANGED ghost

SamSetModelName ==
    \E name \in ModelNames :
        /\ name # ai_model_name
        /\ Commit(Begin(set_ai_model_name(Self, name), "set_ai_model_name"))
        /\ UNCHANGED ghost

SamRefine ==
    \E shape \in Prompts, cm \in {"ai_polygon", "ai_mask"} :
    \E resp \in Responses(cm) :
    \E r \in {refine(Begin(Self, "refine"), shape, cm, resp)} :
        /\ Commit(r.c)
        /\ ghost' = [pair |-> <<ai_model_name, pixmap.img>>,
                     prevPair |-> ghost.pair, prevEncode |-> nEncode,
                     samePrompt |-> shape = ghost.before,
                     before |-> shape, after |-> r.shape, cm |-> cm,
                     resp |-> resp]

NextSam == SamLoadPixmap \/ SamSetModelName \/ SamRefine

SpecSam == InitSam /\ [][NextSam]_vars

\* C8: when a refinement follows a refinement with the same model name and
\* a pixel-identical image (every call wraps the image in a new object), it
\* computes no embedding: the two calls together compute it at most once,
\* in the first call
C8_SecondRefinementHits ==
    (lastOp = "refine" /\ ghost.prevPair = ghost.pair) =>
        /\ nEncode = 0
        /\ ghost.prevEncode <= 1

\* the second of two refinements of one image with one model and two
\* different prompts, the first of which computed the embedding
C8_Witness ==
    /\ lastOp = "refine"
    /\ ghost.prevPair = ghost.pair
    /\ ~ghost.samePrompt
    /\ ghost.prevEncode = 1
    /\ nEncode = 0

\* C10: a refinement for which the oracle returned no annotation, or whose
\* extracted polygon has fewer than 2 vertices in ai_polygon mode, raises
\* nothing and leaves the prompt shape as it was
C10_FailedRefinementKeepsShape ==
    (/\ lastOp = "refine"
     /\ \/ ghost.resp.annotations = 0
        \/ ghost.cm = "ai_polygon" /\ Len(ghost.resp.polygon) < 2) =>
        /\ exc = "none"
        /\ ghost.after = ghost.before
        /\ ghost.after.shape_type = "points"
        /\ ~ghost.after.hasMask

\* an ai_polygon refinement whose extracted polygon has one vertex
C10_Witness ==
    /\ lastOp = "refine"
    /\ exc = "none"
    /\ ghost.cm = "ai_polygon"
    /\ ghost.resp.annotations = 1
    /\ Len(ghost.resp.polygon) = 1
    /\ ghost.after = ghost.before
    /\ Len(ghost.before.points) = 2


(***************************************************************************)
(* SpecSamLru: the same refinements, with the bookkeeping of which         *)
(* (model name, image) pairs were used since each pair's embedding was     *)
(* last computed.                                                          *)
(***************************************************************************)
InitSamLru ==
    /\ \E img \in Images :
           Install(loadPixmap(InitCanvas(DefaultNumBackups, TRUE),
                              Pixmap(ImgW, ImgH, img), TRUE))
    /\ ghost = [computed |-> {}, since |-> [q \in Pairs |-> {}],
                othersSince |-> -1]

LruLoadPixmap ==
    \E img \in Images :
        /\ img # pixmap.img
        /\ Commit(Begin(loadPixmap(Self, Pixmap(ImgW, ImgH, img), TRUE),
                        "loadPixmap"))
        /\ UNCHANGED ghost

LruSetModelName ==
    \E name \in ModelNames :
        /\ name # ai_model_name
        /\ Commit(Begin(set_ai_model_name(Self, name), "set_ai_model_name"))
        /\ UNCHANGED ghost

LruRefine ==
    \E shape \in Prompts, cm \in {"ai_polygon", "ai_mask"} :
    \E r \in {refine(Begin(Self, "refine"), shape, cm, NoAnnotation)} :
        LET pr == <<ai_model_name, pixmap.img>>
        IN  /\ Commit(r.c)
            /\ ghost' =
                 [computed |-> IF r.c.nEncode > 0
                               THEN ghost.computed \cup {pr}
                               ELSE ghost.computed,
                  since |-> [q \in Pairs |->
                               IF q # pr THEN ghost.since[q] \cup {pr}
                               ELSE IF r.c.nEncode > 0 THEN {}
                               ELSE ghost.since[q]],
                  othersSince |-> IF pr \in ghost.computed
                                  THEN Cardinality(ghost.since[pr])
                                  ELSE -1]

NextSamLru == LruLoadPixmap \/ LruSetModelName \/ LruRefine

SpecSamLru == InitSamLru /\ [][NextSamLru]_vars

\* C9: a refinement recomputes the embedding of a (model name, image) pair
\* only if at least 3 other pairs were used since it was last computed
C9_RecomputeOnlyAfterThreeOthers ==
    (lastOp = "refine" /\ nEncode > 0 /\ ghost.othersSince >= 0) =>
        ghost.othersSince >= 3


(***************************************************************************)
(* SpecEdit: editing with the pointer.  An image and shapes are loaded;    *)
(* the user hovers, presses a button, drags and releases; between gestures *)
(* the host undoes or reloads; a behaviour has at most MaxSteps of these.  *)
(* ghost follows the gesture: the button                                   *)
(* held, the shapes that the gesture's move events moved, the snapshots    *)
(* pushed since the press, and at a release whether a moved shape differed *)
(* from its record in the latest snapshot.                                 *)
(***************************************************************************)
\* pointer positions: inside RectA, on a vertex of RectA, next to an edge of
\* TriB, in the empty corner of the image, and outside the image
EditPoints == {Pt(1, 1), Pt(0, 0), Pt(3, 1), Pt(1, 4), Pt(Px(ImgW), 2)}

EditMods == {{}, {"ctrl"}, {"alt", "shift"}}

InitEdit ==
    /\ \E l \in HostLists \ {<<>>} :
           Install(hostLoadShapes(loadPixmap(InitCanvas(1, TRUE),
                                             Pixmap(ImgW, ImgH, 1), TRUE),
                                  l, TRUE))
    /\ ghost = [held |-> "none", steps |-> 0, moves |-> 0, pushes |-> 0, moved |-> {}, differs |-> FALSE,
                released |-> "none"]

\* the shapes of d whose vertices are not those they have in c
MovedShapes(c, d) ==
    {a \in Range(c.shapes) \cap DOMAIN d.heap : d.heap[a].points # c.heap[a].points}

\* some shape of `moved` is not recorded with its vertices in the latest
\* snapshot
DiffersFromTop(c, moved) ==
    \E i \in DOMAIN c.shapes :
        /\ c.shapes[i] \in moved
        /\ \/ c.shapesBackups = <<>>
           \/ i > Len(c.shapesBackups[Len(c.shapesBackups)])
           \/ c.shapesBackups[Len(c.shapesBackups)][i].points
                  # c.heap[c.shapes[i]].points

EditPress ==
    /\ ghost.held = "none"
    /\ ghost.steps < MaxSteps
    /\ \E pos \in EditPoints, mods \in EditMods :
       \E d \in {mousePressEvent(Begin(Self, "mousePressEvent"), pos, "left",
                                 mods, NoAnnotation)} :
           /\ Commit(d)
           /\ ghost' = [ghost EXCEPT !.held = "left", !.steps = @ + 1,
                                     !.moves = 0, !.pushes = d.nStore,
                                     !.moved = {}, !.released = "none"]

EditMove ==
    /\ ghost.steps < MaxSteps
    /\ \E pos \in EditPoints :
       \E d \in {mouseMoveEvent(Begin(Self, "mouseMoveEvent"), pos,
                                {ghost.held} \ {"none"}, {})} :
           /\ Commit(d)
           /\ ghost' = [ghost EXCEPT
                          !.steps = @ + 1,
                          !.moves = IF ghost.held = "none" THEN 0
                                    ELSE MinOf(@ + 1, 2),
                          !.pushes = @ + d.nStore,
                          !.moved = IF ghost.held = "none" THEN {}
                                    ELSE @ \cup MovedShapes(Self, d),
                          !.released = "none"]

EditRelease ==
    /\ ghost.held # "none"
    /\ ghost.steps < MaxSteps
    /\ \E d \in {mouseReleaseEvent(Begin(Self, "mouseReleaseEvent"),
                                   ghost.held, FALSE)} :
           /\ Commit(d)
           /\ ghost' = [ghost EXCEPT
                          !.held = "none", !.steps = @ + 1,
                          !.pushes = @ + d.nStore,
                          !.differs = DiffersFromTop(Self, ghost.moved),
                          !.released = ghost.held]

EditUndo ==
    /\ ghost.held = "none"
    /\ ghost.steps < MaxSteps
    /\ isShapeRestorable(Self)
    /\ Commit(undoShapeEdit(Begin(Self, "undoShapeEdit")))
    /\ ghost' = [ghost EXCEPT !.steps = @ + 1, !.released = "none"]

EditLoadShapes ==
    /\ ghost.held = "none"
    /\ ghost.steps < MaxSteps
    /\ \E l \in HostLists \ {<<>>} :
           Commit(hostLoadShapes(Begin(Self, "loadShapes"), l, TRUE))
    /\ ghost' = [ghost EXCEPT !.steps = @ + 1, !.released = "none"]

NextEdit == EditPress \/ EditMove \/ EditRelease \/ EditUndo \/ EditLoadShapes

SpecEdit == InitEdit /\ [][NextEdit]_vars

\* C6: in EDIT mode, from a left press to its release, the press and the
\* pointer moves push no snapshot and the release pushes at most one
C6_DragPushesAtMostOnceAtRelease ==
    /\ (lastOp = "mouseMoveEvent") => nStore = 0
    /\ (ghost.held = "left") => ghost.pushes = 0
    /\ (ghost.released = "left") => (ghost.pushes <= 1 /\ ghost.pushes = nStore)

\* a release after two moves of a drag, which pushed the gesture's snapshot
C6_Witness ==
    /\ lastOp = "mouseReleaseEvent"
    /\ ghost.released = "left"
    /\ ghost.moves = 2
    /\ ghost.moved # {}
    /\ ghost.pushes = 1

\* C7: the left release that ends a drag which moved shapes pushes exactly
\* one snapshot and emits shapeMoved if a moved shape's vertices differ
\* from its record in the latest snapshot, and pushes nothing otherwise
C7_ReleasePushesIffMoved ==
    (/\ lastOp = "mouseReleaseEvent"
     /\ ghost.released = "left"
     /\ ghost.moved # {}) =>
        IF ghost.differs
        THEN nStore = 1 /\ "shapeMoved" \in emitted
        ELSE nStore = 0


\* C25: a pointer move with the left button held and a vertex highlighted
\* changes no shape but the highlighted one, and of that one nothing but the
\* highlighted vertex, which ends within [0, width-1] x [0, height-1]
\* wherever the pointer is
C25_VertexDragMovesOneVertex ==
    [][(/\ lastOp' = "mouseMoveEvent"
        /\ ghost.held = "left"
        /\ hVertex # None) =>
           /\ shapes' = shapes
           /\ \A a \in DOMAIN heap \ {hShape} : a \in DOMAIN heap' /\ heap'[a] = heap[a]
           /\ hShape # None =>
                 /\ hShape \in DOMAIN heap'
                 /\ [heap'[hShape] EXCEPT !.points = <<>>]
                        = [heap[hShape] EXCEPT !.points = <<>>]
                 /\ Len(heap'[hShape].points) = Len(heap[hShape].points)
                 /\ \A i \in DOMAIN heap[hShape].points :
                        i # hVertex => heap'[hShape].points[i] = heap[hShape].points[i]
                 /\ hVertex \in DOMAIN heap[hShape].points =>
                        LET p == heap'[hShape].points[hVertex]
                        IN  /\ 0 <= p[1] /\ p[1] <= Px(pixmap.w - 1)
                            /\ 0 <= p[2] /\ p[2] <= Px(pixmap.h - 1)]_vars

\* a vertex was dragged with the pointer outside the image and ended on the
\* image's right edge
C25_Witness ==
    /\ lastOp = "mouseMoveEvent"
    /\ ghost.held = "left"
    /\ exc = "none"
    /\ hVertex # None
    /\ hShape # None
    /\ outOfPixmap(Self, prevMovePoint)
    /\ movingShape
    /\ heap[hShape].points[hVertex][1] = Px(pixmap.w - 1)
    /\ heap[hShape].points[hVertex] # prevMovePoint

(***************************************************************************)
(* SpecDraw: drawing.  An image is loaded and the canvas is in CREATE      *)
(* mode.  The user clicks, moves, holds the button (timer ticks), presses  *)
(* Return or Escape, double-clicks and takes back the last point, at most  *)
(* MaxDrawSteps times; then the host may switch the create mode, and may   *)
(* re-open the last shape with undoLastLine, after which the user goes on  *)
(* for at most MaxContinueSteps events.  ghost.phase is "draw", "switched" *)
(* or "reopened"; ghost.added tells whether the last step added a vertex   *)
(* to the shape in progress.                                               *)
(***************************************************************************)
CreateModes ==
    {"polygon", "rectangle", "circle", "line", "point", "linestrip",
     "ai_polygon", "ai_mask"}

\* pointer positions: two pixels of the image and one outside it
DrawPoints == {Pt(0, 0), Pt(Px(1), Px(2)), Pt(Px(ImgW), Px(1))}

\* the modifiers of an event that canvas.py reads in create mode cm: Ctrl
\* completes a linestrip or an AI prompt, Shift marks a negative AI point
DrawMods(cm) ==
    IF IsAiMode(cm) THEN {{}, {"ctrl"}, {"shift"}}
    ELSE IF cm = "linestrip" THEN {{}, {"ctrl"}}
    ELSE {{}}

\* the answers the oracle can give to a finalise
DrawResponses(cm) == IF IsAiMode(cm) THEN Responses(cm) ELSE {NoAnnotation}

\* the vertices of the shape in progress, <<>> when there is none
CurrentPoints(c) == IF c.current = None THEN <<>> ELSE Obj(c, c.current).points

\* handler result d of state c has one more vertex in the shape in progress
AddedPoint(c, d) ==
    /\ d.current # None
    /\ \/ d.current = c.current /\ Len(CurrentPoints(d)) > Len(CurrentPoints(c))
       \/ d.current # c.current /\ c.current = None

\* the model's bounds on the sizes of the shape set and of a shape
WithinDrawBounds(d) ==
    /\ Len(d.shapes) <= MaxShapes
    /\ Len(CurrentPoints(d)) <= MaxPoints

InitDraw ==
    /\ \E cm \in CreateModes :
           Install(setCreateMode(
                       setEditing(loadPixmap(InitCanvas(1, TRUE),
                                             Pixmap(ImgW, ImgH, 1), TRUE),
                                  FALSE),
                       cm))
    /\ ghost = [phase |-> "draw", steps |-> 0, added |-> FALSE]

\* the user can act
UserTurn ==
    \/ ghost.phase = "draw" /\ ghost.steps < MaxDrawSteps
    \/ ghost.phase = "reopened" /\ ghost.steps < MaxContinueSteps

\* the step of a user event whose handler returned d
DrawStep(d) ==
    /\ WithinDrawBounds(d)
    /\ Commit(d)
    /\ ghost' = [ghost EXCEPT !.steps = @ + 1, !.added = AddedPoint(Self, d)]

DrawPress ==
    /\ UserTurn
    /\ \E pos \in DrawPoints, mods \in DrawMods(createMode) :
       \E resp \in IF "ctrl" \in mods THEN DrawResponses(createMode)
                   ELSE {NoAnnotation} :
           DrawStep(mousePressEvent(Begin(Self, "mousePressEvent"), pos,
                                    "left", mods, resp))

DrawMove ==
    /\ UserTurn
    /\ \E pos \in DrawPoints, mods \in DrawMods(createMode) \ {{"ctrl"}} :
           DrawStep(mouseMoveEvent(Begin(Self, "mouseMoveEvent"), pos, {}, mods))

DrawRelease ==
    /\ UserTurn
    /\ DrawStep(mouseReleaseEvent(Begin(Self, "mouseReleaseEvent"), "left",
                                  FALSE))

DrawTick ==
    /\ UserTurn
    /\ \E pos \in DrawPoints :
           DrawStep(add_point_under_cursor(
                        Begin(Self, "add_point_under_cursor"), pos))

DrawKey ==
    /\ UserTurn
    /\ \E key \in {"Return", "Escape"} :
       \E resp \in IF key = "Return" THEN DrawResponses(createMode)
                   ELSE {NoAnnotation} :
           DrawStep(keyPressEvent(Begin(Self, "keyPressEvent"), key, {}, resp))

DrawDoubleClick ==
    /\ UserTurn
    /\ \E resp \in DrawResponses(createMode) :
           DrawStep(mouseDoubleClickEvent(
                        Begin(Self, "mouseDoubleClickEvent"), resp))

DrawUndoLastPoint ==
    /\ UserTurn
    /\ DrawStep(undoLastPoint(Begin(Self, "undoLastPoint")))

DrawSetCreateMode ==
    /\ ghost.phase = "draw"
    /\ \E cm \in CreateModes \ {createMode} :
           Commit(setCreateMode(Begin(Self, "createMode"), cm))
    /\ ghost' = [ghost EXCEPT !.phase = "switched", !.added = FALSE]

DrawUndoLastLine ==
    /\ ghost.phase \in {"draw", "switched"}
    /\ shapes # <<>>
    /\ Commit(undoLastLine(Begin(Self, "undoLastLine")))
    /\ ghost' = [phase |-> "reopened", steps |-> 0, added |-> FALSE]

NextDraw ==
    \/ DrawPress \/ DrawMove \/ DrawRelease \/ DrawTick \/ DrawKey
    \/ DrawDoubleClick \/ DrawUndoLastPoint \/ DrawSetCreateMode
    \/ DrawUndoLastLine

SpecDraw == InitDraw /\ [][NextDraw]_vars

\* C4: every shape of the shape set and the shape in progress has as many
\* vertex labels as vertices
C4_LabelsMatchPoints ==
    \A a \in Range(shapes) \cup ({current} \ {None}) :
        Len(heap[a].point_labels) = Len(heap[a].points)

\* C5: while a shape is in progress in create mode polygon, linestrip,
\* ai_polygon or ai_mask, after a click or a timer tick that added a vertex
\* to it, it has as many vertex labels as vertices
C5_AddPointKeepsLabels ==
    (/\ lastOp \in {"mousePressEvent", "add_point_under_cursor"}
     /\ ghost.added
     /\ current # None
     /\ createMode \in {"polygon", "linestrip", "ai_polygon", "ai_mask"}) =>
        Len(heap[current].point_labels) = Len(heap[current].points)

\* C20: a vertex that a click or a tick of the hold timer adds to the shape
\* in progress lies within [0, width-1] x [0, height-1], wherever the
\* pointer is
C20_CommittedVerticesInImage ==
    (/\ lastOp \in {"mousePressEvent", "add_point_under_cursor"}
     /\ ghost.phase = "draw"
     /\ ghost.added
     /\ current # None) =>
        LET p == heap[current].points[Len(heap[current].points)]
        IN  /\ 0 <= p[1] /\ p[1] <= Px(pixmap.w - 1)
            /\ 0 <= p[2] /\ p[2] <= Px(pixmap.h - 1)

(***************************************************************************)
(* SpecBuild: building one shape.  An image is loaded, the canvas is in    *)
(* CREATE mode in one of the create modes, with the hit tolerance          *)
(* BuildEpsilon.  The user clicks, moves the pointer, holds the button     *)
(* (timer ticks), releases, presses Return or Escape, double-clicks and    *)
(* takes back the last point, until one shape is in the shape set.  ghost  *)
(* is the last event: its kind, whether the event before it was a pointer  *)
(* move, and the position of a click that found no shape in progress.      *)
(***************************************************************************)
\* pointer positions: three corners of a triangle, a point within
\* BuildEpsilon of the first of them, and a point outside the image
BuildPoints ==
    {Pt(0, 0), Pt(Px(2), 0), Pt(Px(2), Px(2)), Pt(1, 1), Pt(Px(ImgW), Px(1))}

\* the modifiers canvas.py reads at a click while drawing: Ctrl completes a
\* linestrip or an AI prompt
BuildMods(cm) ==
    IF IsAiMode(cm) \/ cm = "linestrip" THEN {{}, {"ctrl"}} ELSE {{}}

\* the model's bounds: one shape is built, of at most BuildMaxPoints vertices
WithinBuildBounds(d) ==
    /\ Len(d.shapes) <= BuildMaxShapes
    /\ Len(CurrentPoints(d)) <= BuildMaxPoints
    /\ d.shapes # <<>> => d.current = None

\* canvas d has the shape set of canvas c: the same objects, unchanged
SameShapes(c, d) ==
    /\ d.shapes = c.shapes
    /\ Values(d, d.shapes) = Values(c, c.shapes)

\* canvas d has the shape in progress of canvas c, unchanged
SameCurrent(c, d) ==
    /\ d.current = c.current
    /\ c.current # None => Obj(d, d.current) = Obj(c, c.current)

InitBuild ==
    /\ \E cm \in CreateModes :
           Install(setCreateMode(
                       setEditing(loadPixmap([InitCanvas(1, TRUE) EXCEPT
                                                 !.epsilon = BuildEpsilon],
                                             Pixmap(ImgW, ImgH, 1), TRUE),
                                  FALSE),
                       cm))
    /\ ghost = [ev |-> "init", afterMove |-> FALSE, start |-> <<>>]

\* the user goes on while no shape is finished
Building == drawing(Self) /\ shapes = <<>>

\* the step of event ev whose handler returned d
BuildStep(ev, start, d) ==
    /\ WithinBuildBounds(d)
    /\ Commit(d)
    /\ ghost' = [ev |-> ev, afterMove |-> ghost.ev = "move", start |-> start]

BuildPress ==
    /\ Building
    /\ \E pos \in BuildPoints, mods \in BuildMods(createMode) :
       \E resp \in IF "ctrl" \in mods THEN DrawResponses(createMode)
                   ELSE {NoAnnotation} :
           BuildStep("press",
                     IF Truthy(Self, current) THEN <<>> ELSE pos,
                     mousePressEvent(Begin(Self, "mousePressEvent"), pos,
                                     "left", mods, resp))

BuildMove ==
    /\ Building
    /\ \E pos \in BuildPoints :
           BuildStep("move", <<>>,
                     mouseMoveEvent(Begin(Self, "mouseMoveEvent"), pos, {}, {}))

BuildRelease ==
    /\ Building
    /\ BuildStep("release", <<>>,
                 mouseReleaseEvent(Begin(Self, "mouseReleaseEvent"), "left",
                                   FALSE))

BuildTick ==
    /\ Building
    /\ \E pos \in BuildPoints :
           BuildStep("tick", <<>>,
                     add_point_under_cursor(
                         Begin(Self, "add_point_under_cursor"), pos))

BuildKey ==
    /\ Building
    /\ \E key \in {"Return", "Escape"} :
       \E resp \in IF key = "Return" THEN DrawResponses(createMode)
                   ELSE {NoAnnotation} :
           BuildStep(key, <<>>,
                     keyPressEvent(Begin(Self, "keyPressEvent"), key, {}, resp))

BuildDoubleClick ==
    /\ Building
    /\ \E resp \in DrawResponses(createMode) :
           BuildStep("doubleclick", <<>>,
                     mouseDoubleClickEvent(
                         Begin(Self, "mouseDoubleClickEvent"), resp))

BuildUndoLastPoint ==
    /\ Building
    /\ BuildStep("undoLastPoint", <<>>,
                 undoLastPoint(Begin(Self, "undoLastPoint")))

NextBuild ==
    \/ BuildPress \/ BuildMove \/ BuildRelease \/ BuildTick \/ BuildKey
    \/ BuildDoubleClick \/ BuildUndoLastPoint

SpecBuild == InitBuild /\ [][NextBuild]_vars

\* C11: in create mode polygon, a click or the Return key on a shape in
\* progress that has one or two vertices appends nothing to the shape set
C11_PolygonClosesOnlyFromThree ==
    [][(/\ createMode = "polygon"
        /\ ghost'.ev \in {"press", "Return"}
        /\ Len(CurrentPoints(Self)) \in {1, 2}) =>
           shapes' = shapes]_vars

\* C12: in create mode rectangle, a click at p inside the image that finds no
\* shape in progress starts one at p; after a pointer move to q inside the
\* image, the next click appends exactly one shape to the shape set, a
\* closed rectangle with the vertices p, q, and leaves no shape in progress
C12_RectangleFromTwoClicks ==
    [][/\ (/\ createMode = "rectangle"
           /\ ghost'.ev = "press"
           /\ ~Truthy(Self, current)
           /\ ghost'.start \in ImagePoints) =>
              CurrentPoints(Self') = <<ghost'.start>>
       /\ (/\ createMode = "rectangle"
           /\ ghost'.ev = "press"
           /\ ghost.ev = "move"
           /\ Len(CurrentPoints(Self)) = 1
           /\ CurrentPoints(Self)[1] \in ImagePoints
           /\ prevMovePoint \in ImagePoints) =>
              /\ shapes' = Append(shapes, current)
              /\ heap'[current].shape_type = "rectangle"
              /\ heap'[current].closed
              /\ heap'[current].points = <<CurrentPoints(Self)[1], prevMovePoint>>
              /\ current' = None]_vars

\* a rectangle was drawn from (0,0) to (2,2)
C12_Witness ==
    /\ createMode = "rectangle"
    /\ ghost.ev = "press"
    /\ ghost.afterMove
    /\ current = None
    /\ Len(shapes) = 1
    /\ heap[shapes[1]].shape_type = "rectangle"
    /\ heap[shapes[1]].closed
    /\ heap[shapes[1]].points = <<Pt(0, 0), Pt(Px(2), Px(2))>>

C18_EarlyFinaliseIsNoOp ==
    [][(/\ ~IsAiMode(createMode)
        /\ ghost'.ev \in {"Return", "doubleclick"}
        /\ Truthy(Self, current)
        /\ Len(CurrentPoints(Self)) < 3) =>
           /\ SameCurrent(Self, Self')
           /\ SameShapes(Self, Self')
           /\ shapesBackups' = shapesBackups
           /\ mode' = CREATE
           /\ current' # None]_vars

\* Return was pressed on a polygon in progress with two vertices
C18_Witness ==
    /\ createMode = "polygon"
    /\ ghost.ev = "Return"
    /\ current # None
    /\ Len(heap[current].points) = 2
    /\ ~heap[current].closed
    /\ shapes = <<>>

\* C19: the Escape key in CREATE mode while a shape is in progress leaves no
\* shape in progress and changes neither the shape set nor the history; the
\* mode stays CREATE
C19_EscapeDiscardsCurrent ==
    [][(/\ ghost'.ev = "Escape"
        /\ mode = CREATE
        /\ Truthy(Self, current)) =>
           /\ current' = None
           /\ SameShapes(Self, Self')
           /\ shapesBackups' = shapesBackups
           /\ mode' = CREATE]_vars

\* Escape discarded a shape in progress
C19_Witness ==
    /\ ghost.ev = "Escape"
    /\ "drawingPolygon" \in emitted
    /\ current = None
    /\ mode = CREATE
    /\ shapes = <<>>

RestorePoints == {Pt(1, 1), Pt(Px(1), 1), Pt(0, Px(2))}

InitRestore ==
    /\ \E n \in 1..MaxBackups :
           Install(loadPixmap(InitCanvas(n, TRUE), Pixmap(ImgW, ImgH, 1), TRUE))
    /\ ghost = [ev |-> "init", n |-> 0, depth |-> 0, marked |-> FALSE]

\* the step of kind ev whose handler returned d
RestoreStep(ev, d) ==
    /\ ghost.n < RestoreSteps
    /\ Len(d.shapes) <= MaxShapes
    /\ Commit(d)
    /\ ghost' = [ev |-> ev, n |-> ghost.n + 1, depth |-> Len(shapesBackups),
                 marked |-> /\ ev = "restore"
                            /\ Len(shapesBackups) >= 2
                            /\ \E i \in DOMAIN shapesBackups[Len(shapesBackups) - 1] :
                                   shapesBackups[Len(shapesBackups) - 1][i].selected]

RestoreLoad ==
    /\ pixmap.w > 0
    /\ \E l \in HostLists \ {<<>>}, replace \in BOOLEAN :
           RestoreStep("load", hostLoadShapes(Begin(Self, "loadShapes"), l, replace))

RestoreDelete ==
    /\ shapes # <<>>
    /\ \E i \in DOMAIN shapes :
           RestoreStep("delete", deleteShape(Begin(Self, "deleteShape"), shapes[i]))

RestoreSelect ==
    /\ editing(Self)
    /\ \E pos \in RestorePoints, mods \in {{}, {"ctrl"}} :
           RestoreStep("select",
                       mousePressEvent(Begin(Self, "mousePressEvent"), pos,
                                       "left", mods, NoAnnotation))

RestoreCall ==
    /\ pixmap.w > 0
    /\ RestoreStep("restore", restoreShape(Begin(Self, "restoreShape")))

NextRestore == RestoreLoad \/ RestoreDelete \/ RestoreSelect \/ RestoreCall

SpecRestore == InitRestore /\ [][NextRestore]_vars

\* C15: restoreShape called while the history holds fewer than 2 entries
\* changes neither the shape set nor the selection nor the history
C15_RestoreWithoutHistoryIsNoOp ==
    [][(ghost'.ev = "restore" /\ Len(shapesBackups) < 2) =>
           /\ SameShapes(Self, Self')
           /\ selectedShapes' = selectedShapes
           /\ Values(Self', selectedShapes') = Values(Self, selectedShapes)
           /\ shapesBackups' = shapesBackups]_vars

\* restoreShape was called on a history of one entry with a shape selected
C15_Witness ==
    /\ ghost.ev = "restore"
    /\ ghost.depth = 1
    /\ Len(shapesBackups) = 1
    /\ selectedShapes # <<>>
    /\ shapes # <<>>

\* C16: restoreShape called while the history holds at least 2 entries
\* removes exactly the top two; the shape set becomes the second one removed,
\* no shape of it marked selected, and the selection is empty
C16_RestorePopsTwo ==
    [][(ghost'.ev = "restore" /\ Len(shapesBackups) >= 2) =>
           LET n == Len(shapesBackups)
               snap == shapesBackups[n - 1]
           IN  /\ shapesBackups' = SubSeq(shapesBackups, 1, n - 2)
               /\ Values(Self', shapes') =
                      [i \in DOMAIN snap |-> [snap[i] EXCEPT !.selected = FALSE]]
               /\ \A i \in DOMAIN shapes' : ~heap'[shapes'[i]].selected
               /\ selectedShapes' = <<>>]_vars

\* restoreShape made a snapshot that held a selected shape the shape set,
\* which differs from the latest snapshot it dropped
C16_Witness ==
    /\ ghost.ev = "restore"
    /\ ghost.depth >= 2
    /\ ghost.marked
    /\ Len(shapesBackups) = ghost.depth - 2
    /\ shapes # <<>>
    /\ selectedShapes = <<>>

(***************************************************************************)
(* SpecReset: pointer events while no image is loaded.  An image and       *)
(* shapes are loaded, the canvas is in EDIT or CREATE mode; the host calls *)
(* resetState and loadPixmap, and the user presses a button and moves the  *)
(* pointer whether or not there is an image.  ghost is the kind of the     *)
(* last step and the number of steps, at most ResetSteps.                  *)
(***************************************************************************)
\* pointer positions: inside RectA, on its vertex, outside the image
ResetPoints == {Pt(1, 1), Pt(0, 0), Pt(Px(ImgW), 2)}

InitReset ==
    /\ \E l \in HostLists, value \in BOOLEAN :
           Install(setEditing(
                       hostLoadShapes(loadPixmap(InitCanvas(1, TRUE),
                                                 Pixmap(ImgW, ImgH, 1), TRUE),
                                      l, TRUE),
                       value))
    /\ ghost = [ev |-> "init", n |-> 0]

\* the step of kind ev whose handler returned d
ResetStep(ev, d) ==
    /\ ghost.n < ResetSteps
    /\ WithinDrawBounds(d)
    /\ Commit(d)
    /\ ghost' = [ev |-> ev, n |-> ghost.n + 1]

ResetPress ==
    /\ ghost.n < ResetSteps
    /\ \E pos \in ResetPoints, button \in {"left", "right"} :
           ResetStep("press",
                     mousePressEvent(Begin(Self, "mousePressEvent"), pos,
                                     button, {}, NoAnnotation))

ResetMove ==
    /\ ghost.n < ResetSteps
    /\ \E pos \in ResetPoints, buttons \in {{}, {"left"}} :
           ResetStep("move",
                     mouseMoveEvent(Begin(Self, "mouseMoveEvent"), pos,
                                    buttons, {}))

ResetResetState ==
    /\ ~pixmap.isNone
    /\ ResetStep("resetState", resetState(Begin(Self, "resetState")))

ResetLoadPixmap ==
    /\ pixmap.isNone
    /\ \E clear_shapes \in BOOLEAN :
           ResetStep("loadPixmap",
                     loadPixmap(Begin(Self, "loadPixmap"),
                                Pixmap(ImgW, ImgH, 1), clear_shapes))

NextReset == ResetPress \/ ResetMove \/ ResetResetState \/ ResetLoadPixmap

SpecReset == InitReset /\ [][NextReset]_vars

\* C21: a pointer press or a pointer move that arrives while no image is
\* loaded (the coordinate transform fails) raises nothing and changes
\* neither the mode nor the shape in progress nor the shape set nor the
\* selection nor the history
C21_FailedTransformSkipsEvent ==
    [][(ghost'.ev \in {"press", "move"} /\ transformPosRaises(Self)) =>
           /\ exc' = "none"
           /\ mode' = mode
           /\ SameCurrent(Self, Self')
           /\ SameShapes(Self, Self')
           /\ selectedShapes' = selectedShapes
           /\ shapesBackups' = shapesBackups]_vars

(***************************************************************************)
(* SpecCopy: dragging shadow copies.  An image and shapes are loaded and   *)
(* the canvas is in EDIT mode.  The user hovers, presses the left or the   *)
(* right button, moves the pointer with the button held and releases it;   *)
(* the menu of a right release is dismissed, or one of its actions calls   *)
(* endMove.  ghost is the last event, the button held, the number of       *)
(* events (at most CopySteps) and, from a right press on, the shape set    *)
(* and the history as they were before that press.                         *)
(***************************************************************************)
\* pointer positions: inside RectA, inside TriB, in the empty corner
CopyPoints == {Pt(1, 1), Pt(3, 1), Pt(1, 4)}

\* the shapes of the shape set, whatever their selection marks
Unmarked(c) ==
    [i \in DOMAIN c.shapes |-> [Obj(c, c.shapes[i]) EXCEPT !.selected = FALSE]]

InitCopy ==
    /\ \E l \in HostLists \ {<<>>} :
           Install(hostLoadShapes(loadPixmap(InitCanvas(1, TRUE),
                                             Pixmap(ImgW, ImgH, 1), TRUE),
                                  l, TRUE))
    /\ ghost = [ev |-> "init", held |-> "none", n |-> 0,
                shapes0 |-> <<>>, set0 |-> <<>>, hist0 |-> <<>>]

\* the step of event ev, after which button `held` is down, and whose
\* handler returned d
CopyStep(ev, held, d) ==
    /\ ghost.n < CopySteps
    /\ Len(d.shapes) <= MaxShapes + 1
    /\ Commit(d)
    /\ ghost' = IF ev = "press" /\ held = "right"
                THEN [ev |-> ev, held |-> held, n |-> ghost.n + 1,
                      shapes0 |-> shapes, set0 |-> Unmarked(Self),
                      hist0 |-> shapesBackups]
                ELSE [ghost EXCEPT !.ev = ev, !.held = held, !.n = @ + 1]

CopyPress ==
    /\ ghost.held = "none"
    /\ \E pos \in CopyPoints, button \in {"left", "right"},
          mods \in {{}, {"ctrl"}} :
           CopyStep("press", button,
                    mousePressEvent(Begin(Self, "mousePressEvent"), pos,
                                    button, mods, NoAnnotation))

CopyMove ==
    /\ ghost.n < CopySteps
    /\ \E pos \in CopyPoints :
           CopyStep("move", ghost.held,
                    mouseMoveEvent(Begin(Self, "mouseMoveEvent"), pos,
                                   {ghost.held} \ {"none"}, {}))

CopyRelease ==
    /\ ghost.held # "none"
    /\ CopyStep("release", "none",
                mouseReleaseEvent(Begin(Self, "mouseReleaseEvent"),
                                  ghost.held, FALSE))

\* the menu of the right release runs the host's copy or move action, which
\* calls endMove, and returns that action
CopyReleaseChosen ==
    /\ ghost.held = "right"
    /\ selectedShapes # <<>>
    /\ selectedShapesCopy # <<>>
    /\ \E copy \in BOOLEAN :
           CopyStep("chosen", "none",
                    mouseReleaseEvent(endMove(Begin(Self, "mouseReleaseEvent"),
                                              copy),
                                      "right", TRUE))

NextCopy == CopyPress \/ CopyMove \/ CopyRelease \/ CopyReleaseChosen

SpecCopy == InitCopy /\ [][NextCopy]_vars

\* C22: while the right button is held on a selection, a pointer move
\* changes neither the shape set nor any shape of it or of the selection;
\* and a right release whose menu is dismissed leaves no shadow copies, and
\* the shape set and the history as they were before the right press
C22_RightDragMovesOnlyCopies ==
    [][/\ (ghost.held = "right" /\ ghost'.ev = "move") =>
              /\ shapes' = shapes
              /\ \A a \in Range(shapes) \cup Range(selectedShapes) :
                     heap'[a] = heap[a]
              /\ shapesBackups' = shapesBackups
       /\ (/\ ghost.held = "right"
           /\ ghost'.ev = "release"
           /\ selectedShapesCopy # <<>>) =>
              /\ selectedShapesCopy' = <<>>
              /\ shapes' = ghost.shapes0
              /\ Unmarked(Self') = ghost.set0
              /\ shapesBackups' = ghost.hist0]_vars

(***************************************************************************)
(* SpecMode: drawing while the host switches the mode.  An image is        *)
(* loaded; the canvas is in CREATE or EDIT mode, in any create mode.  The  *)
(* user clicks, moves the pointer, presses Return or Escape and            *)
(* double-clicks; the host calls setEditing at any time.  ghost is the     *)
(* last step and the number of steps, at most ModeSteps.                   *)
(***************************************************************************)
\* pointer positions: two pixels of the image
ModePoints == {Pt(0, 0), Pt(Px(1), Px(2))}

InitMode ==
    /\ \E cm \in CreateModes, value \in BOOLEAN :
           Install(setCreateMode(
                       setEditing(loadPixmap(InitCanvas(1, TRUE),
                                             Pixmap(ImgW, ImgH, 1), TRUE),
                                  value),
                       cm))
    /\ ghost = [ev |-> "init", n |-> 0]

\* the step of kind ev whose handler returned d
ModeStep(ev, d) ==
    /\ ghost.n < ModeSteps
    /\ WithinDrawBounds(d)
    /\ Commit(d)
    /\ ghost' = [ev |-> ev, n |-> ghost.n + 1]

ModePress ==
    /\ ghost.n < ModeSteps
    /\ \E pos \in ModePoints, mods \in BuildMods(createMode) :
       \E resp \in IF "ctrl" \in mods THEN DrawResponses(createMode)
                   ELSE {NoAnnotation} :
           ModeStep("press",
                    mousePressEvent(Begin(Self, "mousePressEvent"), pos,
                                    "left", mods, resp))

ModeMove ==
    /\ ghost.n < ModeSteps
    /\ \E pos \in ModePoints :
           ModeStep("move",
                    mouseMoveEvent(Begin(Self, "mouseMoveEvent"), pos, {}, {}))

ModeKey ==
    /\ ghost.n < ModeSteps
    /\ \E key \in {"Return", "Escape"} :
       \E resp \in IF key = "Return" THEN DrawResponses(createMode)
                   ELSE {NoAnnotation} :
           ModeStep(key,
                    keyPressEvent(Begin(Self, "keyPressEvent"), key, {}, resp))

ModeDoubleClick ==
    /\ ghost.n < ModeSteps
    /\ \E resp \in DrawResponses(createMode) :
           ModeStep("doubleclick",
                    mouseDoubleClickEvent(
                        Begin(Self, "mouseDoubleClickEvent"), resp))

ModeSetEditing ==
    /\ ghost.n < ModeSteps
    /\ \E value \in BOOLEAN :
           ModeStep("setEditing",
                    setEditing(Begin(Self, "setEditing"), value))

NextMode ==
    \/ ModePress \/ ModeMove \/ ModeKey \/ ModeDoubleClick \/ ModeSetEditing

SpecMode == InitMode /\ [][NextMode]_vars

\* C23: in EDIT mode there is no shape in progress, also after setEditing
\* switched from CREATE to EDIT while a shape was being built
C23_CurrentOnlyInCreate == mode = EDIT => current = None

\* C30: no Return key press and no double-click, in any create mode and in
\* either mode, makes finalise fail its `assert self.current`
C30_FinaliseHasCurrent ==
    lastOp \in {"keyPressEvent", "mouseDoubleClickEvent"} =>
        exc # "AssertionError"

(***************************************************************************)
(* SpecSelect: hovering and clicking on shapes.  An image and shapes are   *)
(* loaded and the canvas is in EDIT mode.  The user moves the pointer with *)
(* no button held, presses the left or the right button and releases it;   *)
(* the host shows and hides shapes.  ghost is the last step: its kind, the *)
(* button held after it, the position and modifiers of a press, and the    *)
(* number of steps, at most SelectSteps.                                   *)
(***************************************************************************)
\* pointer positions: on a vertex of RectA; inside RectA only; inside RectA
\* and next to an edge of TriB; inside TriB; on no shape
SelectPoints == {Pt(0, 0), Pt(1, 1), Pt(2, 1), Pt(3, 1), Pt(1, 4)}

InitSelect ==
    /\ \E l \in HostLists \ {<<>>} :
           Install(hostLoadShapes(loadPixmap(InitCanvas(1, TRUE),
                                             Pixmap(ImgW, ImgH, 1), TRUE),
                                  l, TRUE))
    /\ ghost = [ev |-> "init", held |-> "none", pos |-> NullPoint,
                mods |-> {}, n |-> 0]

\* the step of kind ev, after which button `held` is down, whose handler
\* returned d
SelectStep(ev, held, pos, mods, d) ==
    /\ ghost.n < SelectSteps
    /\ Commit(d)
    /\ ghost' = [ev |-> ev, held |-> held, pos |-> pos, mods |-> mods,
                 n |-> ghost.n + 1]

SelectHover ==
    /\ ghost.held = "none"
    /\ \E pos \in SelectPoints :
           SelectStep("hover", "none", pos, {},
                      mouseMoveEvent(Begin(Self, "mouseMoveEvent"), pos, {}, {}))

SelectPress ==
    /\ ghost.held = "none"
    /\ \E pos \in SelectPoints, button \in {"left", "right"}, mods \in EditMods :
           SelectStep("press", button, pos, mods,
                      mousePressEvent(Begin(Self, "mousePressEvent"), pos,
                                      button, mods, NoAnnotation))

SelectRelease ==
    /\ ghost.held # "none"
    /\ SelectStep("release", "none", NullPoint, {},
                  mouseReleaseEvent(Begin(Self, "mouseReleaseEvent"),
                                    ghost.held, FALSE))

SelectSetVisible ==
    /\ ghost.held = "none"
    /\ \E i \in DOMAIN shapes, value \in BOOLEAN :
           SelectStep("setShapeVisible", "none", NullPoint, {},
                      setShapeVisible(Begin(Self, "setShapeVisible"),
                                      shapes[i], value))

NextSelect == SelectHover \/ SelectPress \/ SelectRelease \/ SelectSetVisible

SpecSelect == InitSelect /\ [][NextSelect]_vars

\* the shape at address a matches the pointer at pos by a vertex within the
\* tolerance
VertexMatch(c, a, pos) == ShapeNearestVertex(Obj(c, a), pos, c.epsilon) # None

\* ... by an edge within the tolerance that takes a new vertex
EdgeMatch(c, a, pos) ==
    /\ ShapeNearestEdge(Obj(c, a), pos, c.epsilon) # None
    /\ ShapeCanAddPoint(Obj(c, a))

\* the positions in the shape set of the visible shapes that match the
\* pointer at pos by vertex, edge or body
Matching(c, pos) ==
    {i \in DOMAIN c.shapes :
        /\ isVisible(c, c.shapes[i])
        /\ \/ VertexMatch(c, c.shapes[i], pos)
           \/ EdgeMatch(c, c.shapes[i], pos)
           \/ ShapeContainsPoint(Obj(c, c.shapes[i]), pos)}

\* C26: after a pointer move with no button held in EDIT mode, the
\* highlighted shape is the top-most visible shape that matches the pointer
\* by vertex, else by insertable edge, else by body, highlighted by the
\* first of the three that applies to it; with no such shape nothing is
\* highlighted
C26_HoverHighlightsTopMost ==
    [][(ghost'.ev = "hover" /\ mode = EDIT) =>
           LET pos == ghost'.pos
               m == Matching(Self, pos)
           IN  IF m = {}
               THEN hShape' = None /\ hVertex' = None /\ hEdge' = None
               ELSE LET a == shapes[SetMax(m)]
                    IN  /\ hShape' = a
                        /\ IF VertexMatch(Self, a, pos)
                           THEN /\ hVertex' = ShapeNearestVertex(heap[a], pos, epsilon)
                                /\ hEdge' = None
                           ELSE IF EdgeMatch(Self, a, pos)
                           THEN /\ hVertex' = None
                                /\ hEdge' = ShapeNearestEdge(heap[a], pos, epsilon)
                           ELSE hVertex' = None /\ hEdge' = None]_vars

\* the pointer hovers where the top shape matches by a vertex and the shape
\* beneath it by a vertex and by its body: the top shape's vertex is
\* highlighted
C26_Witness ==
    /\ ghost.ev = "hover"
    /\ Len(shapes) = 2
    /\ Matching(Self, ghost.pos) = {1, 2}
    /\ VertexMatch(Self, shapes[1], ghost.pos)
    /\ ShapeContainsPoint(heap[shapes[1]], ghost.pos)
    /\ hShape = shapes[2]
    /\ hVertex # None
    /\ hEdge = None

\* the vertices of all the shapes of the shape set
AllPoints(c) == [i \in DOMAIN c.shapes |-> Obj(c, c.shapes[i]).points]

C28_ClickSelectsTopMost ==
    [][(/\ ghost'.ev = "press"
        /\ ghost'.held = "left"
        /\ mode = EDIT
        /\ hEdge = None
        /\ ~(hVertex # None /\ ghost'.mods = {"alt", "shift"})) =>
           LET m == Matching(Self, ghost'.pos)
           IN  IF m = {} THEN selectedShapes' = <<>>
               ELSE /\ shapes[SetMax(m)] \in Range(selectedShapes')
                    /\ Range(selectedShapes') \subseteq
                           Range(selectedShapes) \cup {shapes[SetMax(m)]}]_vars

(***************************************************************************)
(* SpecPrompt: placing the prompt points of the AI create modes.  An image *)
(* is loaded and the canvas is in CREATE mode, create mode ai_polygon or   *)
(* ai_mask.  The user moves the pointer and clicks inside the image, with  *)
(* or without Shift held, never with Ctrl.  ghost is the last step: its    *)
(* kind, its modifiers, and the number of steps, at most PromptSteps.      *)
(***************************************************************************)
PromptSteps == 4

\* pointer positions: three pixels of the image
PromptPoints == {Pt(0, 0), Pt(Px(1), Px(1)), Pt(Px(2), Px(1))}

\* the modifier states: none, Shift
PromptMods == {{}, {"shift"}}

InitPrompt ==
    /\ \E cm \in {"ai_polygon", "ai_mask"} :
           Install(setCreateMode(
                       setEditing(loadPixmap(InitCanvas(1, TRUE),
                                             Pixmap(ImgW, ImgH, 1), TRUE),
                                  FALSE),
                       cm))
    /\ ghost = [ev |-> "init", mods |-> {}, n |-> 0]

\* the step of kind ev under the modifiers mods whose handler returned d
PromptStep(ev, mods, d) ==
    /\ ghost.n < PromptSteps
    /\ Commit(d)
    /\ ghost' = [ev |-> ev, mods |-> mods, n |-> ghost.n + 1]

PromptMove ==
    /\ ghost.n < PromptSteps
    /\ \E pos \in PromptPoints, mods \in PromptMods :
           PromptStep("move", mods,
                      mouseMoveEvent(Begin(Self, "mouseMoveEvent"), pos, {},
                                     mods))

PromptPress ==
    /\ ghost.n < PromptSteps
    /\ \E pos \in PromptPoints, mods \in PromptMods :
           PromptStep("press", mods,
                      mousePressEvent(Begin(Self, "mousePressEvent"), pos,
                                      "left", mods, NoAnnotation))

NextPrompt == PromptMove \/ PromptPress

SpecPrompt == InitPrompt /\ [][NextPrompt]_vars

\* C29: in ai_polygon and ai_mask the prompt point that a click adds to the
\* shape in progress, the first point as well as a later one, has label 0
\* when Shift is held at that click and label 1 when it is not, whatever the
\* modifiers of the pointer move before it
C29_LabelFollowsShiftAtClick ==
    [][LET before == IF current = None THEN 0
                     ELSE Len(heap[current].points)
       IN  (/\ ghost'.ev = "press"
            /\ current' # None
            /\ Len(heap'[current'].points) = before + 1) =>
               LET labels == heap'[current'].point_labels
               IN  /\ Len(labels) = before + 1
                   /\ labels[Len(labels)] =
                          IF "shift" \in ghost'.mods THEN 0 ELSE 1]_vars

(***************************************************************************)
(* SpecRelease: dragging among deletions, undo and resets.  An image and   *)
(* shapes are loaded and the canvas is in EDIT mode.  The user moves the   *)
(* pointer, presses and releases the left button and nudges with an arrow  *)
(* key; between gestures the host deletes the selected shapes, undoes,     *)
(* resets the state and loads an image.  ghost is the last step: its kind, *)
(* the button held after it, and the number of steps, at most              *)
(* ReleaseSteps.                                                           *)
(***************************************************************************)
ReleaseSteps == 7

\* pointer positions: on a vertex of RectA, inside RectA, in the empty
\* corner of the image
ReleasePoints == {Pt(0, 0), Pt(1, 1), Pt(1, 4)}

InitRelease ==
    /\ Install(hostLoadShapes(loadPixmap(InitCanvas(1, TRUE),
                                         Pixmap(ImgW, ImgH, 1), TRUE),
                              <<RectA>>, TRUE))
    /\ ghost = [ev |-> "init", held |-> "none", n |-> 0]

\* the step of kind ev that leaves the button `held` and whose handler
\* returned d
ReleaseStep(ev, held, d) ==
    /\ ghost.n < ReleaseSteps
    /\ Commit(d)
    /\ ghost' = [ev |-> ev, held |-> held, n |-> ghost.n + 1]

ReleaseMove ==
    /\ ghost.n < ReleaseSteps
    /\ \E pos \in ReleasePoints :
           ReleaseStep("move", ghost.held,
                       mouseMoveEvent(Begin(Self, "mouseMoveEvent"), pos,
                                      {ghost.held} \ {"none"}, {}))

ReleasePress ==
    /\ ghost.held = "none"
    /\ \E pos \in ReleasePoints :
           ReleaseStep("press", "left",
                       mousePressEvent(Begin(Self, "mousePressEvent"), pos,
                                       "left", {}, NoAnnotation))

ReleaseRelease ==
    /\ ghost.held = "left"
    /\ ReleaseStep("release", "none",
                   mouseReleaseEvent(Begin(Self, "mouseReleaseEvent"), "left",
                                     FALSE))

ReleaseKey ==
    /\ ghost.held = "none"
    /\ ReleaseStep("key", "none",
                   keyReleaseEvent(
                       keyPressEvent(Begin(Self, "keyPressEvent"), "Right", {},
                                     NoAnnotation),
                       {}))

ReleaseDeleteSelected ==
    /\ ghost.held = "none"
    /\ ReleaseStep("deleteSelected", "none",
                   deleteSelected(Begin(Self, "deleteSelected")))

ReleaseUndo ==
    /\ ghost.held = "none"
    /\ isShapeRestorable(Self)
    /\ ReleaseStep("undo", "none", undoShapeEdit(Begin(Self, "undoShapeEdit")))

ReleaseResetState ==
    /\ ghost.held = "none"
    /\ ReleaseStep("resetState", "none", resetState(Begin(Self, "resetState")))

ReleaseLoadPixmap ==
    /\ ghost.held = "none"
    /\ ReleaseStep("loadPixmap", "none",
                   loadPixmap(Begin(Self, "loadPixmap"),
                              Pixmap(ImgW, ImgH, 2), TRUE))

NextRelease ==
    \/ ReleaseMove \/ ReleasePress \/ ReleaseRelease \/ ReleaseKey
    \/ ReleaseDeleteSelected \/ ReleaseUndo \/ ReleaseResetState
    \/ ReleaseLoadPixmap

SpecRelease == InitRelease /\ [][NextRelease]_vars

\* C31: a left release that finds movingShape set and a highlighted shape
\* finds that shape in the shape set, and the history not empty with a top
\* snapshot that has an entry at the shape's index
C31_ReleaseComparisonDefined ==
    [][(/\ ghost'.ev = "release"
        /\ movingShape
        /\ hShape # None
        /\ Truthy(Self, hShape)) =>
           /\ hShape \in Range(shapes)
           /\ shapesBackups # <<>>
           /\ IndexOf(shapes, hShape)
                  <= Len(shapesBackups[Len(shapesBackups)])]_vars

(***************************************************************************)
(* SpecShadow: a right-button drag among key events, deletion and undo.    *)
(* An image and shapes are loaded and the canvas is in EDIT mode.  The     *)
(* user presses a button, moves the pointer and releases; the menu of a    *)
(* right release that finds shadow copies is dismissed or runs endMove.    *)
(* At any time, also with a button held, the user nudges with an arrow     *)
(* key, and the host deletes the selected shapes or undoes.  ghost is the  *)
(* last step: its kind, the button held after it, and the number of steps, *)
(* at most ShadowSteps.                                                    *)
(***************************************************************************)
ShadowSteps == 5

\* pointer positions: inside RectA, in the empty corner of the image
ShadowPoints == {Pt(1, 1), Pt(1, 4)}

InitShadow ==
    /\ \E l \in {<<RectA>>, <<RectA, TriB>>} :
           Install(hostLoadShapes(loadPixmap(InitCanvas(1, TRUE),
                                             Pixmap(ImgW, ImgH, 1), TRUE),
                                  l, TRUE))
    /\ ghost = [ev |-> "init", held |-> "none", n |-> 0]

\* the step of kind ev that leaves the button `held` and whose handler
\* returned d
ShadowStep(ev, held, d) ==
    /\ ghost.n < ShadowSteps
    /\ Len(d.shapes) <= MaxShapes + 1
    /\ Commit(d)
    /\ ghost' = [ev |-> ev, held |-> held, n |-> ghost.n + 1]

ShadowPress ==
    /\ ghost.held = "none"
    /\ \E pos \in ShadowPoints, button \in {"left", "right"} :
           ShadowStep("press", button,
                      mousePressEvent(Begin(Self, "mousePressEvent"), pos,
                                      button, {}, NoAnnotation))

ShadowMove ==
    /\ ghost.n < ShadowSteps
    /\ \E pos \in ShadowPoints :
           ShadowStep("move", ghost.held,
                      mouseMoveEvent(Begin(Self, "mouseMoveEvent"), pos,
                                     {ghost.held} \ {"none"}, {}))

ShadowRelease ==
    /\ ghost.held # "none"
    /\ ShadowStep("release", "none",
                  mouseReleaseEvent(Begin(Self, "mouseReleaseEvent"),
                                    ghost.held, FALSE))

\* the menu of a right release that finds shadow copies offers the host's
\* copy and move actions; the chosen one calls endMove
ShadowEndMove ==
    /\ ghost.held = "right"
    /\ selectedShapesCopy # <<>>
    /\ \E copy \in BOOLEAN :
       \E d \in {endMove(Begin(Self, "endMove"), copy)} :
           ShadowStep("endMove", "none",
                      IF d.exc # "none" THEN d
                      ELSE mouseReleaseEvent(d, "right", TRUE))

ShadowKey ==
    /\ ghost.n < ShadowSteps
    /\ ShadowStep("key", ghost.held,
                  keyReleaseEvent(
                      keyPressEvent(Begin(Self, "keyPressEvent"), "Right", {},
                                    NoAnnotation),
                      {}))

ShadowDeleteSelected ==
    /\ ghost.n < ShadowSteps
    /\ ShadowStep("deleteSelected", ghost.held,
                  deleteSelected(Begin(Self, "deleteSelected")))

ShadowUndo ==
    /\ ghost.n < ShadowSteps
    /\ isShapeRestorable(Self)
    /\ ShadowStep("undo", ghost.held,
                  undoShapeEdit(Begin(Self, "undoShapeEdit")))

NextShadow ==
    \/ ShadowPress \/ ShadowMove \/ ShadowRelease \/ ShadowEndMove
    \/ ShadowKey \/ ShadowDeleteSelected \/ ShadowUndo

SpecShadow == InitShadow /\ [][NextShadow]_vars

\* C32: whenever shadow copies exist the selection is not empty and holds as
\* many shapes as there are shadow copies
C32_CopiesMatchSelection ==
    selectedShapesCopy # <<>> =>
        /\ selectedShapes # <<>>
        /\ Len(selectedShapes) = Len(selectedShapesCopy)

(***************************************************************************)
(* SpecVertex: removing and dragging vertices.  An image and a polygon of  *)
(* four vertices are loaded and the canvas is in EDIT mode.  The user      *)
(* moves the pointer, presses the left button with or without Alt+Shift    *)
(* and releases it.  ghost is the last step: its kind, the button held     *)
(* after it, and the number of steps, at most VertexSteps.                 *)
(***************************************************************************)
VertexSteps == 5

\* the polygon the host loads
QuadC ==
    HostShape("polygon",
              <<Pt(0, 0), Pt(Px(2), 0), Pt(Px(2), Px(2)), Pt(0, Px(2))>>)

\* pointer positions: on the first vertex, on the last vertex, inside the
\* polygon
VertexPoints == {Pt(0, 0), Pt(0, Px(2)), Pt(Px(1), Px(1))}

InitVertex ==
    /\ Install(hostLoadShapes(loadPixmap(InitCanvas(1, TRUE),
                                         Pixmap(ImgW, ImgH, 1), TRUE),
                              <<QuadC>>, TRUE))
    /\ ghost = [ev |-> "init", held |-> "none", n |-> 0]

\* the step of kind ev that leaves the button `held` and whose handler
\* returned d
VertexStep(ev, held, d) ==
    /\ ghost.n < VertexSteps
    /\ Commit(d)
    /\ ghost' = [ev |-> ev, held |-> held, n |-> ghost.n + 1]

VertexMove ==
    /\ ghost.n < VertexSteps
    /\ \E pos \in VertexPoints :
           VertexStep("move", ghost.held,
                      mouseMoveEvent(Begin(Self, "mouseMoveEvent"), pos,
                                     {ghost.held} \ {"none"}, {}))

VertexPress ==
    /\ ghost.held = "none"
    /\ \E pos \in VertexPoints, mods \in {{}, {"alt", "shift"}} :
           VertexStep("press", "left",
                      mousePressEvent(Begin(Self, "mousePressEvent"), pos,
                                      "left", mods, NoAnnotation))

VertexRelease ==
    /\ ghost.held = "left"
    /\ VertexStep("release", "none",
                  mouseReleaseEvent(Begin(Self, "mouseReleaseEvent"), "left",
                                    FALSE))

NextVertex == VertexMove \/ VertexPress \/ VertexRelease

SpecVertex == InitVertex /\ [][NextVertex]_vars

\* C33: whenever a vertex is highlighted a shape is highlighted and the
\* vertex is one of its vertices, also right after a vertex was removed
C33_HighlightedVertexExists ==
    hVertex # None =>
        /\ hShape # None
        /\ hVertex <= Len(heap[hShape].points)

(***************************************************************************)
(* SpecPaint: painting while drawing.  An image and shapes are loaded and  *)
(* the canvas is in CREATE mode, in any create mode.  The user clicks and  *)
(* moves the pointer, the host re-opens the last shape (undoLastLine), and *)
(* the widget is painted at any time, the oracle giving any answer to the  *)
(* live preview.  ghost is the last step: its kind, whether the oracle     *)
(* returned an annotation to it, and the number of steps, at most          *)
(* PaintSteps.                                                             *)
(***************************************************************************)
PaintSteps == 4

\* pointer positions: two pixels of the image
PaintPoints == {Pt(0, 0), Pt(Px(1), Px(2))}

InitPaint ==
    /\ \E cm \in CreateModes :
           Install(setCreateMode(
                       setEditing(
                           hostLoadShapes(loadPixmap(InitCanvas(1, TRUE),
                                                     Pixmap(ImgW, ImgH, 1),
                                                     TRUE),
                                          <<TriB>>, TRUE),
                           FALSE),
                       cm))
    /\ ghost = [ev |-> "init", annotated |-> FALSE, n |-> 0]

\* the step of kind ev whose handler returned d
PaintStep(ev, annotated, d) ==
    /\ ghost.n < PaintSteps
    /\ WithinDrawBounds(d)
    /\ Commit(d)
    /\ ghost' = [ev |-> ev, annotated |-> annotated, n |-> ghost.n + 1]

PaintPress ==
    /\ ghost.n < PaintSteps
    /\ \E pos \in PaintPoints :
           PaintStep("press", FALSE,
                     mousePressEvent(Begin(Self, "mousePressEvent"), pos,
                                     "left", {}, NoAnnotation))

PaintMove ==
    /\ ghost.n < PaintSteps
    /\ \E pos \in PaintPoints :
           PaintStep("move", FALSE,
                     mouseMoveEvent(Begin(Self, "mouseMoveEvent"), pos, {},
                                    {}))

PaintUndoLastLine ==
    /\ shapes # <<>>
    /\ current = None
    /\ PaintStep("undoLastLine", FALSE,
                 undoLastLine(Begin(Self, "undoLastLine")))

PaintPaint ==
    /\ ghost.n < PaintSteps
    /\ \E fill_drawing \in BOOLEAN, resp \in DrawResponses(createMode) :
           PaintStep("paint", resp.annotations > 0,
                     paintEvent(Begin(Self, "paintEvent"), fill_drawing, resp))

NextPaint == PaintPress \/ PaintMove \/ PaintUndoLastLine \/ PaintPaint

SpecPaint == InitPaint /\ [][NextPaint]_vars

\* C34: whenever there is a shape in progress the rubber-band line has as
\* many labels as points, also right after undoLastLine re-opened a shape
\* that was loaded, so the assertions of mouseMoveEvent and paintEvent hold
C34_LineLabelsMatchPoints ==
    /\ current # None => Len(line.points) = Len(line.point_labels)
    /\ lastOp \in {"mouseMoveEvent", "paintEvent"} => exc # "AssertionError"

LabelSteps == 6

\* the most shapes drawn
LabelMaxShapes == 3

\* pointer positions: two pixels of the image
LabelPoints == {Pt(0, 0), Pt(Px(1), Px(2))}

\* the texts the user enters
LabelTexts == {"cat", "dog"}

InitLabel ==
    /\ \E cm \in {"point", "line", "polygon"}, nb \in {0, 1} :
           Install(setCreateMode(
                       setEditing(loadPixmap(InitCanvas(nb, TRUE),
                                             Pixmap(ImgW, ImgH, 1), TRUE),
                                  FALSE),
                       cm))
    /\ ghost = [ev |-> "init", text |-> "", n |-> 0]

\* the step of kind ev whose handler returned d
LabelStep(ev, text, d) ==
    /\ ghost.n < LabelSteps
    /\ Len(d.shapes) <= LabelMaxShapes
    /\ Len(CurrentPoints(d)) <= MaxPoints
    /\ Commit(d)
    /\ ghost' = [ev |-> ev, text |-> text, n |-> ghost.n + 1]

LabelPress ==
    /\ ghost.n < LabelSteps
    /\ \E pos \in LabelPoints :
           LabelStep("press", "",
                     mousePressEvent(Begin(Self, "mousePressEvent"), pos,
                                     "left", {}, NoAnnotation))

LabelMove ==
    /\ ghost.n < LabelSteps
    /\ \E pos \in LabelPoints :
           LabelStep("move", "",
                     mouseMoveEvent(Begin(Self, "mouseMoveEvent"), pos, {},
                                    {}))

\* the host's slot of newShape
LabelSetLastLabel ==
    /\ "newShape" \in emitted
    /\ \E text \in LabelTexts :
           LabelStep("setLastLabel", text,
                     setLastLabel(Begin(Self, "setLastLabel"), text))

NextLabel == LabelPress \/ LabelMove \/ LabelSetLastLabel

SpecLabel == InitLabel /\ [][NextLabel]_vars

\* C36: setLastLabel called after a finalise leaves the history as long as
\* it was, keeps every entry below the top, and makes the top entry the
\* snapshot of the shape set with the last shape relabelled
C36_SetLastLabelReplacesTop ==
    [][ghost'.ev = "setLastLabel" =>
           /\ exc' = "none"
           /\ Len(shapesBackups') = Len(shapesBackups)
           /\ ButLast(shapesBackups') = ButLast(shapesBackups)
           /\ shapes' = shapes
           /\ heap'[shapes'[Len(shapes')]].label = ghost'.text
           /\ shapesBackups'[Len(shapesBackups')] = Values(Self', shapes')]_vars

\* the third shape drawn has been labelled, with the history at its
\* capacity of num_backups + 2 snapshots
C36_Witness ==
    /\ ghost.ev = "setLastLabel"
    /\ exc = "none"
    /\ Len(shapes) = 3
    /\ Len(shapesBackups) = num_backups + 2
    /\ shapesBackups[Len(shapesBackups)][3].label = ghost.text

=============================================================================
